---- MODULE Spec2Model ----
(***************************************************************************)
(* Per-user sequential forwarding pipeline of ForwardBot (src/main.py).    *)
(*                                                                         *)
(* Spec      : the queue supervisor: inbound handlers, per-user queues,    *)
(*             worker tasks, logout and login, as asyncio tasks run by one *)
(*             event loop.  The transfer of a job is one await that        *)
(*             returns or raises.                                          *)
(* SpecSteady: the same supervisor without /logout and /login;             *)
(*             SpecSteadyFair adds the progress the event loop gives.      *)
(* SpecCopy  : one job from queue.get() to the finally clause, with the    *)
(*             transfer (forward_messages, _copy_message_with_media)       *)
(*             followed network call by network call, with the temporary   *)
(*             files it leaves on disk.                                    *)
(* SpecCooldown: events of channels outside the source list and the        *)
(*             'ignored' warning with its cooldown.                        *)
(* SpecBan   : the supervisor of SpecSteady with the owner banning users.  *)
(* SpecBot   : the bot's private messages and button callbacks, with the   *)
(*             owner banning users.                                        *)
(***************************************************************************)
EXTENDS Integers, Sequences, FiniteSets, TLC

VARIABLES
    message_queues,     \* self.message_queues   : user -> queue id, 0 = no entry
    queue_processors,   \* self.queue_processors : user -> task id,  0 = no entry
    processing_locks,   \* self.processing_locks : user -> "absent" | "True" | "False"
    user_clients,       \* self.user_clients     : user -> BOOLEAN (entry present)
    session,            \* db.user_sessions      : user -> BOOLEAN (session stored)
    queues,             \* per user, the asyncio.Queue objects created so far
    tasks,              \* per user, the worker tasks created so far
    handlers,           \* handle_user_channel_message calls suspended at an await
    logout,             \* cmd_logout position per user; fired: wait_for's timeout has
                        \* expired; ahead (history): the jobs that were in the queue
                        \* when the poison pill was put
    ready,              \* the event loop's deque of callbacks scheduled with call_soon
    ntodo,              \* how many callbacks at the head of ready belong to this iteration
    counter,            \* db.increment_forwards() total
    evCount,            \* per user, inbound events delivered so far (message ids)
    nLogouts,           \* /logout commands handled so far
    enq,                \* history: per user, message ids in the order they were put
    started,            \* history: per user, message ids in the order handed to the transfer
    msg,                \* the job's message: media, text, restricted; its source's mode
    cpc,                \* the await the transfer of SpecCopy is suspended at
    attempt,            \* loop variable of the download / upload retry loop
    progress_msg,       \* progress_msg is not None
    downloaded_path,    \* downloaded_path is set (the temp file exists)
    upload_success,     \* upload_success
    sendLog,            \* history: sends issued to the destination, <<kind, delivered>>
    dlTries,            \* history: download attempts started
    upTries,            \* history: upload attempts started
    outcome,            \* history: "none" | "returned" | "raised" (the transfer step)
    files,              \* temporary files of the transfer that exist on disk
    now,                \* asyncio.get_event_loop().time(), in seconds
    ignored_channels,   \* self.ignored_channels : user -> channel -> last warning, -1 = no entry
    cdHandlers,         \* handlers of events of unlisted channels, suspended at the lookup
    warned,             \* history: per user and channel, the times of the 'ignored' warnings
    cdCount,            \* events of unlisted channels delivered so far
    banned,             \* db.is_user_banned : account -> BOOLEAN
    banpc,              \* cmd_ban position per banned user
    awaiting,           \* per user, the awaiting_* flags that are True
    botTasks,           \* handle_new_message / handle_callback calls suspended at an await
    served,             \* history: events of banned users that reached a command handler
    botCount,           \* private messages and button callbacks delivered so far
    destination,        \* db.get_user_destination : user -> BOOLEAN (a destination is set)
    forward_mode,       \* db: user -> 'copy' | 'forward', the mode of the user's source
    dest_channel,       \* db: user -> channel id of the user's destination
    message_data,       \* per user and message id, the dict put on the queue
    delivered_as,       \* history: per user and message id, mode and destination used
    nChanges,           \* /mode commands and destination changes handled so far
    media,              \* message.media of SpecTimeout: its kind and declared size in bytes
    tpc,                \* where the copy of SpecTimeout is
    download_timeout,   \* download_timeout, in units of 1/DlRate seconds
    file_size_actual,   \* os.path.getsize(downloaded_path), in bytes
    upload_timeout,     \* upload_timeout, in units of 1/UpRate seconds
    ban_cmd,            \* the last /ban or /unban: its number, argument and reply
    gcalls,             \* the calls of get_user_client made so far, each with its position
    client_cache,       \* user_clients : user -> the client stored (its call's number), 0 if none
    live_clients,       \* user -> the connected clients that carry the channel handler
    last_jobs,          \* user -> jobs enqueued for the last inbound channel message
    temp_clients        \* temp_clients : user -> a login client with a code requested exists

supVars == <<message_queues, queue_processors, processing_locks, user_clients,
             session, queues, tasks, handlers, logout, ready, ntodo, counter,
             evCount, nLogouts, enq, started>>

copyVars == <<msg, cpc, attempt, progress_msg, downloaded_path, upload_success,
              sendLog, dlTries, upTries, outcome, files>>

cdVars == <<now, ignored_channels, cdHandlers, warned, cdCount>>

banVars == <<banned, banpc, awaiting, botTasks, served, botCount>>

cfgVars == <<destination, forward_mode, dest_channel, message_data, delivered_as,
             nChanges>>

toVars == <<media, tpc, download_timeout, file_size_actual, upload_timeout>>

gcVars == <<gcalls, client_cache, live_clients, last_jobs>>

miscVars == <<toVars, ban_cmd, gcVars, temp_clients>>

otherVars == <<copyVars, cdVars, banVars, cfgVars, miscVars>>

vars == <<supVars, copyVars, cdVars, banVars, cfgVars, miscVars>>

Users == {"A", "B"}

\* Bounds of the exploration: inbound channel messages and /logout commands
\* over all users.
MaxEvents == 4
MaxLogouts == 1

\* Bound of the exploration: changes of a user's mode or destination.
MaxChanges == 2

\* The poison pill put by cmd_logout (None in the source).
Stop == 0

(***************************************************************************)
(* Helpers                                                                 *)
(***************************************************************************)
RECURSIVE SumOver(_, _)
SumOver(f, S) == IF S = {} THEN 0
                 ELSE LET x == CHOOSE y \in S : TRUE
                      IN f[x] + SumOver(f, S \ {x})

TaskIds(u) == 1..Len(tasks[u])

SetTask(u, t, r) == [tasks EXCEPT ![u][t] = r]

\* Task.done()
TaskDone(u, t) == tasks[u][t].pc \in {"done", "stopped"}

\* Workers of user u that have not finished.
LiveWorkers(u) == {t \in TaskIds(u) : ~TaskDone(u, t)}

\* Workers of user u with a transfer (forward or copy) in flight.
InFlight(u) == {t \in TaskIds(u) : tasks[u][t].pc = "transfer"}

\* Position of x in sequence s (0 when absent).
PosIn(s, x) == IF \E i \in 1..Len(s) : s[i] = x
               THEN CHOOSE i \in 1..Len(s) : s[i] = x
               ELSE 0

\* Sequence s without its entries equal to x.
RECURSIVE Without(_, _)
Without(s, x) == IF s = <<>> THEN <<>>
                 ELSE IF Head(s) = x THEN Without(Tail(s), x)
                 ELSE <<Head(s)>> \o Without(Tail(s), x)

\* No transfer is followed in detail.
CopyIdle ==
    /\ msg = [media |-> FALSE, text |-> FALSE, restricted |-> FALSE, mode |-> "copy"]
    /\ cpc = "idle"
    /\ attempt = 0
    /\ progress_msg = FALSE
    /\ downloaded_path = FALSE
    /\ upload_success = FALSE
    /\ sendLog = <<>>
    /\ dlTries = 0
    /\ upTries = 0
    /\ outcome = "none"
    /\ files = {}

\* Channels outside the source lists of the users.
Channels == {"X", "Y"}

\* No 'ignored' warning has been given: ForwardBot.__init__ (line 45).
CdIdle ==
    /\ now = 0
    /\ ignored_channels = [u \in Users |-> [c \in Channels |-> -1]]
    /\ cdHandlers = {}
    /\ warned = [u \in Users |-> [c \in Channels |-> <<>>]]
    /\ cdCount = 0

\* The fields of a job's dict that select how and where it is delivered;
\* NoData: no dict was built for the message id.
NoData == [mode |-> "none", dest |-> 0]

\* The destination channels a user can choose.
DestIds == {1, 2}

\* Every user forwards in copy mode to destination 1, and no job exists.
CfgIdle ==
    /\ forward_mode = [u \in Users |-> "copy"]
    /\ dest_channel = [u \in Users |-> 1]
    /\ message_data = [u \in Users |-> [j \in 1..MaxEvents |-> NoData]]
    /\ delivered_as = [u \in Users |-> [j \in 1..MaxEvents |-> NoData]]
    /\ nChanges = 0

\* No timeout is being computed.
TimeoutIdle ==
    /\ media = [kind |-> "other", size |-> 0]
    /\ tpc = "idle"
    /\ download_timeout = 0
    /\ file_size_actual = 0
    /\ upload_timeout = 0

\* No call of get_user_client has been made.
ClientIdle ==
    /\ gcalls = <<>>
    /\ client_cache = [u \in Users |-> 0]
    /\ live_clients = [u \in Users |-> {}]
    /\ last_jobs = [u \in Users |-> 0]

\* The owner of the bot (self.owner_id, line 153) and a Telegram account
\* that never used the bot.
Owner == "O"

Stranger == "S"

\* The accounts a ban can name.
Accounts == Users \cup {Owner, Stranger}

\* Nobody is banned and the bot has no dialogue open (lines 34-44).
BotIdle ==
    /\ banned = [u \in Accounts |-> FALSE]
    /\ ban_cmd = [n |-> 0, cmd |-> "none", args |-> <<>>, reply |-> "none"]
    /\ temp_clients = [u \in Users |-> FALSE]
    /\ banpc = [u \in Users |-> "idle"]
    /\ awaiting = [u \in Users |-> {}]
    /\ botTasks = {}
    /\ served = {}
    /\ botCount = 0

(***************************************************************************)
(* The asyncio event loop.  Tasks run one at a time and give up control    *)
(* only at an await that suspends.  A step made runnable by the program    *)
(* itself (create_task, Queue.put waking a getter, a finished task waking  *)
(* its waiter, Task.cancel) is a callback appended to the loop's deque and *)
(* is run in order in the next iteration.  A step that waits for the       *)
(* network, the database or a timer is run at the end of an iteration,     *)
(* after the callbacks that iteration started with.                        *)
(***************************************************************************)
\* A callback in the deque: a step of worker task t of the user (k = "step")
\* or the wake-up of the user's cmd_logout (k = "logout").  hop: the
\* callback is reached through one more callback first (_release_waiter of
\* asyncio.wait_for up to Python 3.11; Python 3.12 wakes the waiter
\* directly).
Entry(k, u, t, h) == [k |-> k, user |-> u, t |-> t, hop |-> h]

\* The callbacks of this iteration have run: completions of network calls,
\* database calls and timers are served.
Idle == ntodo = 0

\* ntodo after the callback at the head of the deque has run.
AfterPop == IF ntodo = 0 THEN Len(ready) - 1 ELSE ntodo - 1

\* The callback at the head of the deque is e.
Runs(e) == ready # <<>> /\ Head(ready) = e

\* Faulty variant of the queue: the item is put at the head.
PutItem_Front(Q, x) == [items |-> <<x>> \o Q.items,
                        getters |-> IF Q.getters = <<>> THEN <<>> ELSE Tail(Q.getters)]

\* Queue.put_nowait: the item is appended and the first waiting getter is
\* woken (_wakeup_next).
PutItem(Q, x) == [items |-> Append(Q.items, x),
                  getters |-> IF Q.getters = <<>> THEN <<>> ELSE Tail(Q.getters)]

\* Faulty variant of the queue: a put wakes nobody.
Woken_Nobody(u, Q) == <<>>

\* The callback scheduled by a put on queue record Q of user u.
Woken(u, Q) == IF Q.getters = <<>> THEN <<>>
               ELSE <<Entry("step", u, Head(Q.getters), FALSE)>>

\* The callback scheduled when task t of user u ends: the wake-up of the
\* cmd_logout that awaits this task, if there is one.
Notify(u, t, h) == IF logout[u].pc = "waitfor" /\ logout[u].t = t
                   THEN <<Entry("logout", u, 0, h)>>
                   ELSE <<>>

\* The intermediate callback has run; the callback proper is scheduled.
ReleaseWaiter ==
    /\ ready # <<>>
    /\ Head(ready).hop
    /\ ready' = Append(Tail(ready), [Head(ready) EXCEPT !.hop = FALSE])
    /\ ntodo' = AfterPop
    /\ UNCHANGED <<message_queues, queue_processors, processing_locks, user_clients,
                   session, queues, tasks, handlers, logout, counter, evCount,
                   nLogouts, enq, started>>

(***************************************************************************)
(* Initial state: ForwardBot.__init__, with the users already logged in    *)
(* (a stored session and a connected client carrying the channel handler); *)
(* D tells which users have set a destination channel.                     *)
(***************************************************************************)
QueuesIdle ==
    /\ message_queues = [u \in Users |-> 0]
    /\ queue_processors = [u \in Users |-> 0]
    /\ processing_locks = [u \in Users |-> "absent"]
    /\ queues = [u \in Users |-> <<>>]
    /\ tasks = [u \in Users |-> <<>>]
    /\ handlers = {}
    /\ logout = [u \in Users |-> [pc |-> "idle", t |-> 0, ahead |-> <<>>, fired |-> FALSE]]
    /\ ready = <<>>
    /\ ntodo = 0
    /\ counter = 0
    /\ evCount = [u \in Users |-> 0]
    /\ nLogouts = 0
    /\ enq = [u \in Users |-> <<>>]
    /\ started = [u \in Users |-> <<>>]

SupRestIdle ==
    /\ QueuesIdle
    /\ session = [u \in Users |-> TRUE]

SupIdle ==
    /\ SupRestIdle
    /\ user_clients = [u \in Users |-> TRUE]

InitWith(D) ==
    /\ SupIdle
    /\ CopyIdle
    /\ CdIdle
    /\ BotIdle
    /\ ClientIdle
    /\ destination = D
    /\ CfgIdle
    /\ TimeoutIdle

\* Every user has set a destination channel.
Init == InitWith([u \in Users |-> TRUE])

(***************************************************************************)
(* handle_user_channel_message                                             *)
(***************************************************************************)
\* The user's client delivers a channel message: the handler runs up to its
\* awaits, db.get_user_channels and db.get_user_destination, between which
\* it touches no shared state.  Telethon starts one task per update
\* (sequential_updates=False), so several handlers may be suspended at once.
Inbound(u) ==
    /\ Idle
    /\ user_clients[u]
    /\ SumOver(evCount, Users) < MaxEvents
    /\ evCount' = [evCount EXCEPT ![u] = @ + 1]
    /\ handlers' = handlers \cup {[user |-> u, ev |-> evCount[u] + 1]}
    /\ UNCHANGED <<message_queues, queue_processors, processing_locks, user_clients,
                   session, queues, tasks, logout, ready, ntodo, counter, nLogouts,
                   enq, started>>

\* Faulty variant of the queue check: a queue is created on every call.
NeedQueue_Always(u) == TRUE

\* Whether the handler creates the queue (line 1641).
NeedQueue(u) == message_queues[u] = 0

\* Whether the handler starts a queue processor (line 1647).
NeedProcessor(u) == queue_processors[u] = 0 \/ TaskDone(u, queue_processors[u])

\* Faulty variant of the destination check: the handler goes on without one.
HasDestination_Always(u) == TRUE

\* get_user_destination returns a destination (line 1625).
HasDestination(u) == destination[u]

\* The lookups have returned a matching source and no destination: the
\* handler returns (lines 1624-1627).
HandlerNoDestination(h) ==
    /\ Idle
    /\ h \in handlers
    /\ ~HasDestination(h.user)
    /\ handlers' = handlers \ {h}
    /\ UNCHANGED <<message_queues, queue_processors, processing_locks, user_clients,
                   session, queues, tasks, logout, ready, ntodo, counter, evCount,
                   nLogouts, enq, started>>

\* The lookups have returned a matching source and a destination: queue
\* get-or-create, processor get-or-create and put, with no await in between
\* (put on an unbounded asyncio.Queue does not suspend).
HandlerEnqueue(h) ==
    /\ Idle
    /\ h \in handlers
    /\ HasDestination(h.user)
    /\ LET u  == h.user
           nq == NeedQueue(u)
           q  == IF nq THEN Len(queues[u]) + 1 ELSE message_queues[u]
           qs == IF nq THEN Append(queues[u], [items |-> <<>>, getters |-> <<>>])
                       ELSE queues[u]
           np == NeedProcessor(u)
           nt == Len(tasks[u]) + 1
       IN /\ message_queues' = [message_queues EXCEPT ![u] = q]
          /\ processing_locks' = IF nq THEN [processing_locks EXCEPT ![u] = "False"]
                                       ELSE processing_locks
          /\ IF np
             THEN /\ tasks' = [tasks EXCEPT ![u] =
                                 Append(@, [q |-> 0, pc |-> "start", job |-> 0,
                                            cancel |-> FALSE])]
                  /\ queue_processors' = [queue_processors EXCEPT ![u] = nt]
             ELSE UNCHANGED <<tasks, queue_processors>>
          /\ queues' = [queues EXCEPT ![u] = [qs EXCEPT ![q] = PutItem(@, h.ev)]]
          /\ ready' = ready \o (IF np THEN <<Entry("step", u, nt, FALSE)>> ELSE <<>>)
                            \o Woken(u, qs[q])
          /\ enq' = [enq EXCEPT ![u] = Append(@, h.ev)]
    /\ handlers' = handlers \ {h}
    /\ UNCHANGED <<user_clients, session, logout, ntodo, counter, evCount, nLogouts,
                   started>>

(***************************************************************************)
(* process_message_queue                                                   *)
(***************************************************************************)
\* Faulty variant of the worker: no item is taken for the poison pill.
IsStop_Never(item) == FALSE

\* if message_data is None (line 246).
IsStop(item) == item = Stop

\* Faulty variant of the queue: get returns the head item and leaves it.
GetItem_Peek(Q) == Q

\* Queue.get_nowait on a nonempty queue: the head item is removed.
GetItem(Q) == [Q EXCEPT !.items = Tail(@)]

\* Task t of user u reaches `await queue.get()` on its queue q, with rd the
\* deque and locks the processing flags left by the step so far.  An empty
\* queue suspends the task as a getter.  Otherwise the item is taken with no
\* suspension: the poison pill ends the task ("stopped"); a job sets the processing
\* flag and goes to get_user_client, which returns at once when the client
\* is cached, and the transfer is then invoked.
QueueGet(u, t, q, rd, locks) ==
    IF queues[u][q].items = <<>>
    THEN /\ queues' = [queues EXCEPT ![u][q].getters = Append(@, t)]
         /\ tasks' = SetTask(u, t, [tasks[u][t] EXCEPT !.pc = "get", !.q = q, !.job = 0])
         /\ processing_locks' = locks
         /\ ready' = rd
         /\ UNCHANGED started
    ELSE LET item == Head(queues[u][q].items)
         IN /\ queues' = [queues EXCEPT ![u][q] = GetItem(@)]
            /\ IF IsStop(item)
               THEN /\ tasks' = SetTask(u, t, [tasks[u][t] EXCEPT !.pc = "stopped",
                                                                  !.q = 0, !.job = 0])
                    /\ processing_locks' = locks
                    /\ \E h \in BOOLEAN : ready' = rd \o Notify(u, t, h)
                    /\ UNCHANGED started
               ELSE /\ processing_locks' = [locks EXCEPT ![u] = "True"]
                    /\ ready' = rd
                    /\ IF user_clients[u]
                       THEN /\ tasks' = SetTask(u, t, [tasks[u][t] EXCEPT
                                            !.pc = "transfer", !.q = q, !.job = item])
                            /\ started' = [started EXCEPT ![u] = Append(@, item)]
                       ELSE /\ tasks' = SetTask(u, t, [tasks[u][t] EXCEPT
                                            !.pc = "client", !.q = q, !.job = item])
                            /\ UNCHANGED started

\* First step of a new task: queue = self.message_queues.get(user_id); with
\* no queue the task returns, else it enters the loop.
WorkerStart(u, t) ==
    /\ Runs(Entry("step", u, t, FALSE))
    /\ tasks[u][t].pc = "start"
    /\ ~tasks[u][t].cancel
    /\ ntodo' = AfterPop
    /\ IF message_queues[u] = 0
       THEN /\ tasks' = SetTask(u, t, [tasks[u][t] EXCEPT !.pc = "done"])
            /\ \E h \in BOOLEAN : ready' = Tail(ready) \o Notify(u, t, h)
            /\ UNCHANGED <<queues, processing_locks, started>>
       ELSE QueueGet(u, t, message_queues[u], Tail(ready), processing_locks)
    /\ UNCHANGED <<message_queues, queue_processors, user_clients, session, handlers,
                   logout, counter, evCount, nLogouts, enq>>

\* A getter woken by a put runs: it takes the item, or waits again when
\* another task has taken it meanwhile.
WorkerGet(u, t) ==
    /\ Runs(Entry("step", u, t, FALSE))
    /\ tasks[u][t].pc = "get"
    /\ ~tasks[u][t].cancel
    /\ ntodo' = AfterPop
    /\ QueueGet(u, t, tasks[u][t].q, Tail(ready), processing_locks)
    /\ UNCHANGED <<message_queues, queue_processors, user_clients, session, handlers,
                   logout, counter, evCount, nLogouts, enq>>

\* Faulty variant of the finally clause: the flags of all users are cleared.
AfterJob_AllUsers(u) == [v \in Users |-> "False"]

\* The processing flags after the finally clause of a job (line 323).
AfterJob(u) == [processing_locks EXCEPT ![u] = "False"]

\* NoClient that takes whatever get_user_client returned for a client.
NoClient_Never(ok) == FALSE

\* `if not user_client:` (line 267), with ok telling that get_user_client
\* returned a client.
NoClient(ok) == ~ok

\* get_user_client finishes loading the client from the stored session:
\* either a client (registered in user_clients) or None, and then the job is
\* skipped through the finally clause.
WorkerClient(u, t, ok) ==
    /\ Idle
    /\ tasks[u][t].pc = "client"
    /\ ~tasks[u][t].cancel
    /\ ok => session[u]
    /\ IF ~NoClient(ok)
       THEN /\ user_clients' = [user_clients EXCEPT ![u] = TRUE]
            /\ tasks' = SetTask(u, t, [tasks[u][t] EXCEPT !.pc = "transfer"])
            /\ started' = [started EXCEPT ![u] = Append(@, tasks[u][t].job)]
            /\ UNCHANGED <<processing_locks, queues, ready>>
       ELSE /\ QueueGet(u, t, tasks[u][t].q, ready, AfterJob(u))
            /\ UNCHANGED user_clients
    /\ UNCHANGED <<message_queues, queue_processors, session, handlers, logout, ntodo,
                   counter, evCount, nLogouts, enq>>

\* The transfer (forward_messages or _copy_message_with_media) returns:
\* db.increment_forwards(), then asyncio.sleep(1).
TransferReturn(u, t) ==
    /\ Idle
    /\ tasks[u][t].pc = "transfer"
    /\ ~tasks[u][t].cancel
    /\ counter' = counter + 1
    /\ tasks' = SetTask(u, t, [tasks[u][t] EXCEPT !.pc = "sleep"])
    /\ UNCHANGED <<message_queues, queue_processors, processing_locks, user_clients,
                   session, queues, handlers, logout, ready, ntodo, evCount, nLogouts,
                   enq, started>>

\* Faulty variant of the worker: the exception of a transfer leaves the
\* while loop and ends the task.
TransferRaise_Ends(u, t) ==
    /\ Idle
    /\ tasks[u][t].pc = "transfer"
    /\ ~tasks[u][t].cancel
    /\ tasks' = SetTask(u, t, [tasks[u][t] EXCEPT !.pc = "done", !.q = 0, !.job = 0])
    /\ processing_locks' = AfterJob(u)
    /\ UNCHANGED <<message_queues, queue_processors, user_clients, session, queues,
                   handlers, logout, ready, ntodo, counter, evCount, nLogouts, enq,
                   started>>

\* The transfer raises: the except clause logs, the finally clause runs and
\* the while loop goes on with the next queue.get().
TransferRaise(u, t) ==
    /\ Idle
    /\ tasks[u][t].pc = "transfer"
    /\ ~tasks[u][t].cancel
    /\ QueueGet(u, t, tasks[u][t].q, ready, AfterJob(u))
    /\ UNCHANGED <<message_queues, queue_processors, user_clients, session, handlers,
                   logout, ntodo, counter, evCount, nLogouts, enq>>

\* asyncio.sleep(1) is over: finally clause, back to queue.get().
WorkerSleepDone(u, t) ==
    /\ Idle
    /\ tasks[u][t].pc = "sleep"
    /\ ~tasks[u][t].cancel
    /\ QueueGet(u, t, tasks[u][t].q, ready, AfterJob(u))
    /\ UNCHANGED <<message_queues, queue_processors, user_clients, session, handlers,
                   logout, ntodo, counter, evCount, nLogouts, enq>>

\* CancelledError (from wait_for's timeout in cmd_logout) is thrown into the
\* task at its await.  It is no Exception: inside the job's try block only
\* the finally clause runs, and the task ends.
WorkerCancelled(u, t) ==
    /\ Runs(Entry("step", u, t, FALSE))
    /\ tasks[u][t].cancel
    /\ ~TaskDone(u, t)
    /\ ntodo' = AfterPop
    /\ processing_locks' =
          IF tasks[u][t].pc \in {"client", "transfer", "sleep"}
          THEN AfterJob(u)
          ELSE processing_locks
    /\ tasks' = SetTask(u, t, [tasks[u][t] EXCEPT !.pc = "done", !.job = 0, !.q = 0])
    /\ \E h \in BOOLEAN : ready' = Tail(ready) \o Notify(u, t, h)
    /\ UNCHANGED <<message_queues, queue_processors, user_clients, session, queues,
                   handlers, logout, counter, evCount, nLogouts, enq, started>>


\* CancelledError is thrown into the task while its transfer is suspended at
\* an await wrapped in a bare `except: pass` (the progress notices of
\* _copy_message_with_media, lines 1709-1715 and after): the clause catches
\* the BaseException, the cancellation is lost and the transfer goes on.
WorkerSwallows(u, t) ==
    /\ Runs(Entry("step", u, t, FALSE))
    /\ tasks[u][t].cancel
    /\ tasks[u][t].pc = "transfer"
    /\ ntodo' = AfterPop
    /\ ready' = Tail(ready)
    /\ tasks' = SetTask(u, t, [tasks[u][t] EXCEPT !.cancel = FALSE])
    /\ UNCHANGED <<message_queues, queue_processors, processing_locks, user_clients,
                   session, queues, handlers, logout, counter, evCount, nLogouts, enq,
                   started>>
(***************************************************************************)
(* cmd_logout                                                              *)
(***************************************************************************)
\* Faulty variant of the finally clause: the entry is kept.
AfterLogoutFinally_Keep(m, u) == m

\* A map after the finally clause of cmd_logout removed u's entry.
AfterLogoutFinally(m, u) == [m EXCEPT ![u] = 0]

\* The finally clause (lines 864-870).
LogoutFinally(u) ==
    /\ queue_processors' = AfterLogoutFinally(queue_processors, u)
    /\ message_queues' = AfterLogoutFinally(message_queues, u)
    /\ processing_locks' = [processing_locks EXCEPT ![u] = "absent"]

\* /logout of a logged-in user (handle_command obtains the client first).
\* With a processor entry and a queue: put the poison pill and wait_for the
\* task, which returns at once when the task is already done.
LogoutStart(u) ==
    /\ Idle
    /\ logout[u].pc = "idle"
    /\ nLogouts < MaxLogouts
    /\ user_clients[u] \/ session[u]
    /\ nLogouts' = nLogouts + 1
    /\ user_clients' = [user_clients EXCEPT ![u] = TRUE]
    /\ IF queue_processors[u] # 0 /\ message_queues[u] # 0
       THEN LET q == message_queues[u]
                a == Without(queues[u][q].items, Stop)
            IN /\ queues' = [queues EXCEPT ![u][q] = PutItem(@, Stop)]
               /\ ready' = ready \o Woken(u, queues[u][q])
               /\ IF TaskDone(u, queue_processors[u])
                  THEN /\ LogoutFinally(u)
                       /\ logout' = [logout EXCEPT ![u] =
                                        [pc |-> "disconnect", t |-> 0, ahead |-> a, fired |-> FALSE]]
                  ELSE /\ logout' = [logout EXCEPT ![u] =
                                        [pc |-> "waitfor", t |-> queue_processors[u],
                                         ahead |-> a, fired |-> FALSE]]
                       /\ UNCHANGED <<queue_processors, message_queues, processing_locks>>
       ELSE /\ logout' = [logout EXCEPT ![u] =
                             [pc |-> "disconnect", t |-> 0, ahead |-> <<>>, fired |-> FALSE]]
            /\ IF queue_processors[u] # 0
               THEN LogoutFinally(u)
               ELSE UNCHANGED <<queue_processors, message_queues, processing_locks>>
            /\ UNCHANGED <<queues, ready>>
    /\ UNCHANGED <<session, tasks, handlers, ntodo, counter, evCount, enq, started>>

\* wait_for's 10 seconds pass with the task not done (the loop has long run
\* every callback it had): the task is cancelled, which wakes it at its
\* await, and wait_for goes on waiting for it to end.
LogoutTimeout(u) ==
    /\ Idle
    /\ ready = <<>>
    /\ logout[u].pc = "waitfor"
    /\ ~logout[u].fired
    /\ ~TaskDone(u, logout[u].t)
    /\ LET t == logout[u].t
       IN /\ tasks' = SetTask(u, t, [tasks[u][t] EXCEPT !.cancel = TRUE])
          /\ queues' = IF tasks[u][t].pc = "get"
                       THEN [queues EXCEPT ![u][tasks[u][t].q].getters = Without(@, t)]
                       ELSE queues
          /\ \E h \in BOOLEAN : ready' = <<Entry("step", u, t, h)>>
    /\ logout' = [logout EXCEPT ![u].fired = TRUE]
    /\ UNCHANGED <<message_queues, queue_processors, processing_locks, user_clients,
                   session, handlers, ntodo, counter, evCount, nLogouts, enq,
                   started>>

\* cmd_logout resumes after the awaited task has ended (result or
\* TimeoutError) and runs the finally clause.
LogoutWaitDone(u) ==
    /\ Runs(Entry("logout", u, 0, FALSE))
    /\ logout[u].pc = "waitfor"
    /\ TaskDone(u, logout[u].t)
    /\ ready' = Tail(ready)
    /\ ntodo' = AfterPop
    /\ LogoutFinally(u)
    /\ logout' = [logout EXCEPT ![u] = [pc |-> "disconnect", t |-> logout[u].t,
                                        ahead |-> logout[u].ahead,
                                        fired |-> logout[u].fired]]
    /\ UNCHANGED <<user_clients, session, queues, tasks, handlers, counter, evCount,
                   nLogouts, enq, started>>

\* await client.disconnect(); del self.user_clients[user_id].
LogoutDisconnect(u) ==
    /\ Idle
    /\ logout[u].pc = "disconnect"
    /\ user_clients' = [user_clients EXCEPT ![u] = FALSE]
    /\ logout' = [logout EXCEPT ![u] = [pc |-> "delsession", t |-> 0, ahead |-> <<>>, fired |-> FALSE]]
    /\ UNCHANGED <<message_queues, queue_processors, processing_locks, session, queues,
                   tasks, handlers, ready, ntodo, counter, evCount, nLogouts, enq,
                   started>>

\* await self.db.delete_user_session(user_id).
LogoutDeleteSession(u) ==
    /\ Idle
    /\ logout[u].pc = "delsession"
    /\ session' = [session EXCEPT ![u] = FALSE]
    /\ logout' = [logout EXCEPT ![u] = [pc |-> "idle", t |-> 0, ahead |-> <<>>, fired |-> FALSE]]
    /\ UNCHANGED <<message_queues, queue_processors, processing_locks, user_clients,
                   queues, tasks, handlers, ready, ntodo, counter, evCount, nLogouts,
                   enq, started>>

(***************************************************************************)
(* Login: handle_verification_code / handle_2fa_password store the session *)
(* and register the client with its channel handler.                       *)
(***************************************************************************)
Login(u) ==
    /\ Idle
    /\ ~session[u]
    /\ ~user_clients[u]
    /\ session' = [session EXCEPT ![u] = TRUE]
    /\ user_clients' = [user_clients EXCEPT ![u] = TRUE]
    /\ UNCHANGED <<message_queues, queue_processors, processing_locks, queues, tasks,
                   handlers, logout, ready, ntodo, counter, evCount, nLogouts, enq,
                   started>>

(***************************************************************************)
(* Specification of the queue supervisor                                   *)
(***************************************************************************)
Next ==
    \/ \E u \in Users : Inbound(u) /\ UNCHANGED otherVars
    \/ \E h \in handlers : HandlerEnqueue(h) /\ UNCHANGED otherVars
    \/ \E u \in Users : \E t \in TaskIds(u) : WorkerStart(u, t) /\ UNCHANGED otherVars
    \/ \E u \in Users : \E t \in TaskIds(u) : WorkerGet(u, t) /\ UNCHANGED otherVars
    \/ \E u \in Users : \E t \in TaskIds(u) : \E ok \in BOOLEAN : WorkerClient(u, t, ok) /\ UNCHANGED otherVars
    \/ \E u \in Users : \E t \in TaskIds(u) : TransferReturn(u, t) /\ UNCHANGED otherVars
    \/ \E u \in Users : \E t \in TaskIds(u) : TransferRaise(u, t) /\ UNCHANGED otherVars
    \/ \E u \in Users : \E t \in TaskIds(u) : WorkerSleepDone(u, t) /\ UNCHANGED otherVars
    \/ \E u \in Users : \E t \in TaskIds(u) : WorkerCancelled(u, t) /\ UNCHANGED otherVars
    \/ \E u \in Users : \E t \in TaskIds(u) : WorkerSwallows(u, t) /\ UNCHANGED otherVars
    \/ ReleaseWaiter /\ UNCHANGED otherVars
    \/ \E u \in Users : LogoutStart(u) /\ UNCHANGED otherVars
    \/ \E u \in Users : LogoutTimeout(u) /\ UNCHANGED otherVars
    \/ \E u \in Users : LogoutWaitDone(u) /\ UNCHANGED otherVars
    \/ \E u \in Users : LogoutDisconnect(u) /\ UNCHANGED otherVars
    \/ \E u \in Users : LogoutDeleteSession(u) /\ UNCHANGED otherVars
    \/ \E u \in Users : Login(u) /\ UNCHANGED otherVars

Spec == Init /\ [][Next]_vars

(***************************************************************************)
(* The supervisor in steady operation: no /logout, no /login.              *)
(***************************************************************************)
SteadyNext ==
    \/ \E u \in Users : Inbound(u) /\ UNCHANGED otherVars
    \/ \E h \in handlers : HandlerEnqueue(h) /\ UNCHANGED otherVars
    \/ \E u \in Users : \E t \in TaskIds(u) : WorkerStart(u, t) /\ UNCHANGED otherVars
    \/ \E u \in Users : \E t \in TaskIds(u) : WorkerGet(u, t) /\ UNCHANGED otherVars
    \/ \E u \in Users : \E t \in TaskIds(u) : TransferReturn(u, t) /\ UNCHANGED otherVars
    \/ \E u \in Users : \E t \in TaskIds(u) : TransferRaise(u, t) /\ UNCHANGED otherVars
    \/ \E u \in Users : \E t \in TaskIds(u) : WorkerSleepDone(u, t) /\ UNCHANGED otherVars

SpecSteady == Init /\ [][SteadyNext]_vars

\* The event loop runs the callbacks of its deque.
LoopRuns ==
    \E u \in Users : \E t \in TaskIds(u) :
        (WorkerStart(u, t) \/ WorkerGet(u, t)) /\ UNCHANGED otherVars

\* The transfer of a job of user u ends, by returning or by raising.
TransferEnds(u) ==
    \E t \in TaskIds(u) :
        (TransferReturn(u, t) \/ TransferRaise(u, t)) /\ UNCHANGED otherVars

\* The one-second sleep of a worker of user u ends.
SleepEnds(u) == \E t \in TaskIds(u) : WorkerSleepDone(u, t) /\ UNCHANGED otherVars

\* Progress of the loop and of user B only: nothing is assumed about when a
\* transfer of user A ends, nor about inbound events.
SpecSteadyFair ==
    /\ SpecSteady
    /\ WF_vars(LoopRuns)
    /\ WF_vars(TransferEnds("B"))
    /\ WF_vars(SleepEnds("B"))


\* Fair scheduling with terminating network calls, and no logout: the loop
\* runs its callbacks, and for every user each transfer ends (it returns,
\* raises or times out) and each sleep ends.
SpecProgress ==
    /\ SpecSteady
    /\ WF_vars(LoopRuns)
    /\ \A u \in Users : WF_vars(TransferEnds(u)) /\ WF_vars(SleepEnds(u))

(***************************************************************************)
(* The supervisor in steady operation with users who may have set no       *)
(* destination channel yet.                                                *)
(***************************************************************************)
\* The user forwards a message of the destination channel to the bot while
\* awaiting_destination_forward is set: db.set_user_destination (line 1470).
SetDestination(u) ==
    /\ Idle
    /\ ~destination[u]
    /\ destination' = [destination EXCEPT ![u] = TRUE]
    /\ UNCHANGED <<supVars, copyVars, cdVars, banVars, miscVars, forward_mode,
                   dest_channel, message_data, delivered_as, nChanges>>

RouteInit == \E D \in [Users -> BOOLEAN] : InitWith(D)

RouteNext ==
    \/ \E u \in Users : Inbound(u) /\ UNCHANGED otherVars
    \/ \E h \in handlers : HandlerEnqueue(h) /\ UNCHANGED otherVars
    \/ \E h \in handlers : HandlerNoDestination(h) /\ UNCHANGED otherVars
    \/ \E u \in Users : SetDestination(u)
    \/ \E u \in Users : \E t \in TaskIds(u) : WorkerStart(u, t) /\ UNCHANGED otherVars
    \/ \E u \in Users : \E t \in TaskIds(u) : WorkerGet(u, t) /\ UNCHANGED otherVars
    \/ \E u \in Users : \E t \in TaskIds(u) : TransferReturn(u, t) /\ UNCHANGED otherVars
    \/ \E u \in Users : \E t \in TaskIds(u) : TransferRaise(u, t) /\ UNCHANGED otherVars
    \/ \E u \in Users : \E t \in TaskIds(u) : WorkerSleepDone(u, t) /\ UNCHANGED otherVars

SpecRoute == RouteInit /\ [][RouteNext]_vars
(***************************************************************************)
(* The transfer of one job, network call by network call: lines 272-306 of *)
(* process_message_queue and _copy_message_with_media.  The job is job 1   *)
(* of user A, taken by A's worker (task 1); every call to the client       *)
(* returns or raises.                                                      *)
(***************************************************************************)
max_download_retries == 3
max_upload_retries == 3

\* What client.download_media under wait_for can give: a path, None, or one
\* of the exceptions the retry loop tells apart.
DownloadResults == {"path", "None", "TimeoutError", "ConnectionError", "Exception"}

\* What client.send_file under wait_for can give.
UploadResults == {"ok", "TimeoutError", "ConnectionError", "Exception"}

\* The messages a job can carry and the forward mode of its source channel.
Messages == [media : BOOLEAN, text : BOOLEAN, restricted : BOOLEAN,
             mode : {"copy", "forward"}]

\* The supervisor right after A's worker has taken job 1 and invoked the
\* transfer, for every kind of message.
CopyInit ==
    /\ message_queues = [u \in Users |-> IF u = "A" THEN 1 ELSE 0]
    /\ queue_processors = [u \in Users |-> IF u = "A" THEN 1 ELSE 0]
    /\ processing_locks = [u \in Users |-> IF u = "A" THEN "True" ELSE "absent"]
    /\ user_clients = [u \in Users |-> TRUE]
    /\ session = [u \in Users |-> TRUE]
    /\ queues = [u \in Users |-> IF u = "A" THEN <<[items |-> <<>>, getters |-> <<>>]>>
                                 ELSE <<>>]
    /\ tasks = [u \in Users |->
                  IF u = "A" THEN <<[q |-> 1, pc |-> "transfer", job |-> 1,
                                     cancel |-> FALSE]>>
                  ELSE <<>>]
    /\ handlers = {}
    /\ logout = [u \in Users |-> [pc |-> "idle", t |-> 0, ahead |-> <<>>, fired |-> FALSE]]
    /\ destination = [u \in Users |-> TRUE]
    /\ CfgIdle
    /\ TimeoutIdle
    /\ ready = <<>>
    /\ ntodo = 0
    /\ counter = 0
    /\ evCount = [u \in Users |-> IF u = "A" THEN 1 ELSE 0]
    /\ nLogouts = 0
    /\ enq = [u \in Users |-> IF u = "A" THEN <<1>> ELSE <<>>]
    /\ started = [u \in Users |-> IF u = "A" THEN <<1>> ELSE <<>>]
    /\ msg \in Messages
    /\ cpc = "select"
    /\ attempt = 0
    /\ progress_msg = FALSE
    /\ downloaded_path = FALSE
    /\ upload_success = FALSE
    /\ sendLog = <<>>
    /\ dlTries = 0
    /\ upTries = 0
    /\ outcome = "none"
    /\ files = {}
    /\ CdIdle
    /\ BotIdle
    /\ ClientIdle

\* Faulty variant: a message without media is skipped, text or not.
CopyEntry_MediaOnly(m) == IF m.media THEN "progress" ELSE "return"

\* Where _copy_message_with_media goes first (lines 1695-1698, 2072-2078):
\* media is downloaded and re-uploaded, text is sent, an empty message is
\* skipped.
CopyEntry(m) == IF m.media THEN "progress"
                ELSE IF m.text THEN "textonly"
                ELSE "return"

\* The transfer goes on to position p: another await of the transfer, or
\* its end, normal ("return": the worker increments the counter and sleeps)
\* or by an exception ("raise": the worker logs and runs its finally clause).
Goto(p) ==
    IF p = "return"
    THEN /\ TransferReturn("A", 1)
         /\ cpc' = "done"
         /\ outcome' = "returned"
    ELSE IF p = "raise"
    THEN /\ TransferRaise("A", 1)
         /\ cpc' = "done"
         /\ outcome' = "raised"
    ELSE /\ cpc' = p
         /\ UNCHANGED <<supVars, outcome>>

\* Faulty variant of the selection: the configured mode alone decides, so
\* restricted content of a forward-mode source is forwarded.
CopySelect_ModeOnly ==
    /\ cpc = "select"
    /\ Goto(IF msg.mode = "copy" THEN CopyEntry(msg) ELSE "forward")
    /\ UNCHANGED <<msg, files, attempt, progress_msg, downloaded_path, upload_success,
                   sendLog, dlTries, upTries>>

\* Lines 272-289: copy mode or restricted content is copied, anything else
\* is forwarded.
CopySelect ==
    /\ cpc = "select"
    /\ Goto(IF msg.mode = "copy" \/ msg.restricted THEN CopyEntry(msg) ELSE "forward")
    /\ UNCHANGED <<msg, files, attempt, progress_msg, downloaded_path, upload_success,
                   sendLog, dlTries, upTries>>

\* Faulty variant of the forward: its exception fails the job, with no copy.
CopyForward_NoFallback(ok) ==
    /\ cpc = "forward"
    /\ sendLog' = Append(sendLog, <<"forward", ok>>)
    /\ Goto(IF ok THEN "return" ELSE "raise")
    /\ UNCHANGED <<msg, files, attempt, progress_msg, downloaded_path, upload_success,
                   dlTries, upTries>>

\* Lines 291-306: forward_messages; when it raises, the message is copied.
CopyForward(ok) ==
    /\ cpc = "forward"
    /\ sendLog' = Append(sendLog, <<"forward", ok>>)
    /\ Goto(IF ok THEN "return" ELSE CopyEntry(msg))
    /\ UNCHANGED <<msg, files, attempt, progress_msg, downloaded_path, upload_success,
                   dlTries, upTries>>

\* Lines 1709-1715: the progress message is sent to the destination; a
\* failure of this send is ignored.
CopyProgress(ok) ==
    /\ cpc = "progress"
    /\ sendLog' = Append(sendLog, <<"notice", ok>>)
    /\ progress_msg' = ok
    /\ attempt' = 0
    /\ Goto("download")
    /\ UNCHANGED <<msg, files, downloaded_path, upload_success, dlTries, upTries>>

\* Faulty variant: the caption is not sent after a failed download.
AfterDownloadFailed_Skip(m) == "return"

\* Where the transfer goes when every download attempt has failed (lines
\* 2031-2042): the caption is sent if there is one.
AfterDownloadFailed(m) == IF m.text THEN "caption" ELSE "return"

\* The downloaded media file, and the thumbnail extracted by upload
\* attempt k: its name carries the loop time in seconds (line 1913), and a
\* sleep of 3 or 5 seconds separates the attempts.
MediaFile == <<"media", 0>>
ThumbFile(k) == <<"thumb", k>>

\* Faulty variant of the retry loops: there is always another attempt.
MoreTries_Always(a, max) == TRUE

\* for attempt in range(max): after attempt a (counted from 0) another one
\* follows (lines 1762, 1895).
MoreTries(a, max) == a + 1 < max

\* Lines 1762-1822: one attempt of the download loop.  A path ends the loop;
\* None and every exception lead to the next attempt, if one is left.  The
\* edits of the progress message (to "Download failed" after the last
\* attempt, lines 2034-2038) and the sleep before the next attempt are part
\* of the step: their failures are ignored and they send no new message.
CopyDownload(res) ==
    /\ cpc = "download"
    /\ dlTries' = dlTries + 1
    /\ IF res = "path"
       THEN /\ downloaded_path' = TRUE
            /\ files' = files \cup {MediaFile}
            /\ attempt' = 0
            /\ Goto("stats")
       ELSE /\ UNCHANGED <<downloaded_path, files>>
            /\ IF MoreTries(attempt, max_download_retries)
               THEN /\ attempt' = attempt + 1
                    /\ Goto("download")
               ELSE /\ attempt' = 0
                    /\ Goto(AfterDownloadFailed(msg))
    /\ UNCHANGED <<msg, progress_msg, upload_success, sendLog, upTries>>

\* Lines 1822-1843: the size of the downloaded file is read for the
\* statistics and the progress message is edited, outside the retry loops.
\* An error here (os.path.getsize on a file that is gone, say) is caught by
\* no retry loop and goes to the handler of line 2044, whose clean-up
\* removes temp_path if that file exists.
CopyStats(ok) ==
    /\ cpc = "stats"
    /\ IF ok
       THEN /\ Goto("upload")
            /\ UNCHANGED files
       ELSE /\ Goto("mediaref")
            /\ \E F \in {files, files \ {MediaFile}} : files' = F
    /\ UNCHANGED <<msg, attempt, progress_msg, downloaded_path, upload_success, sendLog,
                   dlTries, upTries>>

\* The files left by the clean-up that follows the upload loop (lines
\* 2025-2030): os.remove(downloaded_path).
AfterUploadLoop(F) == F \ {MediaFile}

\* Lines 1895-2030: one attempt of the upload loop.  th: the document has
\* thumbnails and the thumbnail of this attempt was extracted to a file
\* (lines 1910-1921).  A successful send_file removes the thumbnail of its
\* own attempt (1969-1975) and ends the loop.  After the loop the
\* downloaded file is removed and the function returns normally, whether or
\* not an upload succeeded.  The progress message is deleted after a
\* successful upload and edited after a failed one, within the step.
CopyUpload(res, th) ==
    /\ cpc = "upload"
    /\ upTries' = upTries + 1
    /\ sendLog' = Append(sendLog, <<"media", res = "ok">>)
    /\ LET made == IF th THEN files \cup {ThumbFile(attempt + 1)} ELSE files
       IN IF res = "ok"
          THEN /\ upload_success' = TRUE
               /\ files' = AfterUploadLoop(made \ {ThumbFile(attempt + 1)})
               /\ attempt' = 0
               /\ Goto("return")
          ELSE /\ UNCHANGED upload_success
               /\ IF MoreTries(attempt, max_upload_retries)
                  THEN /\ attempt' = attempt + 1
                       /\ files' = made
                       /\ Goto("upload")
                  ELSE /\ attempt' = 0
                       /\ files' = AfterUploadLoop(made)
                       /\ Goto("return")
    /\ UNCHANGED <<msg, progress_msg, downloaded_path, dlTries>>

\* Line 2041: the caption alone; an exception goes to the handler of line
\* 2044, which sends the message by media reference.
CopyCaption(ok) ==
    /\ cpc = "caption"
    /\ sendLog' = Append(sendLog, <<"text", ok>>)
    /\ Goto(IF ok THEN "return" ELSE "mediaref")
    /\ UNCHANGED <<msg, files, attempt, progress_msg, downloaded_path, upload_success,
                   dlTries, upTries>>

\* Faulty variant: the text is sent whether or not the media reference was
\* delivered.
AfterMediaRef_Always(ok, m) == IF m.text THEN "lastresort" ELSE "return"

\* Where the handler goes after the media-reference send (lines 2065-2070).
AfterMediaRef(ok, m) == IF ok THEN "return"
                        ELSE IF m.text THEN "lastresort"
                        ELSE "return"

\* Lines 2057-2070: send_message(destination, text, file=message.media);
\* when it raises, the text is sent as a last resort if there is one.
CopyMediaRef(ok) ==
    /\ cpc = "mediaref"
    /\ sendLog' = Append(sendLog, <<"mediaref", ok>>)
    /\ Goto(AfterMediaRef(ok, msg))
    /\ UNCHANGED <<msg, files, attempt, progress_msg, downloaded_path, upload_success,
                   dlTries, upTries>>

\* Line 2069: the last-resort text; its exception leaves the function
\* through the outer handler (lines 2080-2084).
CopyLastResort(ok) ==
    /\ cpc = "lastresort"
    /\ sendLog' = Append(sendLog, <<"text", ok>>)
    /\ Goto(IF ok THEN "return" ELSE "raise")
    /\ UNCHANGED <<msg, files, attempt, progress_msg, downloaded_path, upload_success,
                   dlTries, upTries>>

\* Lines 2072-2075: a text-only message.
CopyTextOnly(ok) ==
    /\ cpc = "textonly"
    /\ sendLog' = Append(sendLog, <<"text", ok>>)
    /\ Goto(IF ok THEN "return" ELSE "raise")
    /\ UNCHANGED <<msg, files, attempt, progress_msg, downloaded_path, upload_success,
                   dlTries, upTries>>

CopyNext ==
    \/ CopySelect /\ UNCHANGED <<cdVars, banVars, cfgVars, miscVars>>
    \/ \E ok \in BOOLEAN : CopyForward(ok) /\ UNCHANGED <<cdVars, banVars, cfgVars, miscVars>>
    \/ \E ok \in BOOLEAN : CopyProgress(ok) /\ UNCHANGED <<cdVars, banVars, cfgVars, miscVars>>
    \/ \E res \in DownloadResults : CopyDownload(res) /\ UNCHANGED <<cdVars, banVars, cfgVars, miscVars>>
    \/ \E ok \in BOOLEAN : CopyStats(ok) /\ UNCHANGED <<cdVars, banVars, cfgVars, miscVars>>
    \/ \E res \in UploadResults : \E th \in BOOLEAN : CopyUpload(res, th) /\ UNCHANGED <<cdVars, banVars, cfgVars, miscVars>>
    \/ \E ok \in BOOLEAN : CopyCaption(ok) /\ UNCHANGED <<cdVars, banVars, cfgVars, miscVars>>
    \/ \E ok \in BOOLEAN : CopyMediaRef(ok) /\ UNCHANGED <<cdVars, banVars, cfgVars, miscVars>>
    \/ \E ok \in BOOLEAN : CopyLastResort(ok) /\ UNCHANGED <<cdVars, banVars, cfgVars, miscVars>>
    \/ \E ok \in BOOLEAN : CopyTextOnly(ok) /\ UNCHANGED <<cdVars, banVars, cfgVars, miscVars>>
    \/ WorkerSleepDone("A", 1) /\ UNCHANGED otherVars

SpecCopy == CopyInit /\ [][CopyNext]_vars

(***************************************************************************)
(* Events of channels outside the source list: the 'ignored' warning of    *)
(* handle_user_channel_message and its cooldown (lines 1596-1621).         *)
(***************************************************************************)
\* Seconds between two warnings about the same channel (line 1612).
Cooldown == 300

\* Bounds of the exploration: the clock and the events of unlisted channels.
MaxTime == 610
MaxCdEvents == 3

\* The clock advances by one of these steps between two runs of the loop:
\* their sums fall just below, on and just above a multiple of the cooldown.
TickSteps == {149, 151}

\* The user's client delivers a message of channel c, which is not in the
\* user's source list; the handler is suspended in db.get_user_channels.
CdInbound(u, c) ==
    /\ cdCount < MaxCdEvents
    /\ cdCount' = cdCount + 1
    /\ cdHandlers' = cdHandlers \cup {[user |-> u, channel |-> c, ev |-> cdCount + 1]}
    /\ UNCHANGED <<now, ignored_channels, warned>>

\* Faulty variant of the check: the cooldown is never applied.
Silenced_Never(u, c) == FALSE

\* The channel was warned about less than the cooldown ago (lines
\* 1607-1613).
Silenced(u, c) ==
    /\ ignored_channels[u][c] # -1
    /\ now - ignored_channels[u][c] < Cooldown

\* Faulty variant of the update: the time is recorded for all channels.
Stamp_AllChannels(u, c) == [ignored_channels EXCEPT ![u] = [d \in Channels |-> now]]

\* The cooldown map after the warning about channel c (line 1617).
Stamp(u, c) == [ignored_channels EXCEPT ![u][c] = now]

\* The lookup returns with no matching source: the handler reads the clock,
\* returns silently within the cooldown, and else prints the warning and
\* records its time.  No await lies between the check and the update.
CdIgnore(h) ==
    /\ h \in cdHandlers
    /\ cdHandlers' = cdHandlers \ {h}
    /\ IF Silenced(h.user, h.channel)
       THEN UNCHANGED <<ignored_channels, warned>>
       ELSE /\ warned' = [warned EXCEPT ![h.user][h.channel] = Append(@, now)]
            /\ ignored_channels' = Stamp(h.user, h.channel)
    /\ UNCHANGED <<now, cdCount>>

\* Time passes.
Tick(d) ==
    /\ now + d <= MaxTime
    /\ now' = now + d
    /\ UNCHANGED <<ignored_channels, cdHandlers, warned, cdCount>>

CdNext ==
    \/ \E u \in Users : \E c \in Channels : CdInbound(u, c) /\ UNCHANGED <<supVars, copyVars, banVars, cfgVars, miscVars>>
    \/ \E h \in cdHandlers : CdIgnore(h) /\ UNCHANGED <<supVars, copyVars, banVars, cfgVars, miscVars>>
    \/ \E d \in TickSteps : Tick(d) /\ UNCHANGED <<supVars, copyVars, banVars, cfgVars, miscVars>>

SpecCooldown == Init /\ [][CdNext]_vars

(***************************************************************************)
(* cmd_ban.  The text of cmd_ban in src/main.py is damaged: after the test *)
(* `if await self.db.is_user_banned(ban_user_id):` (line 2169) a second    *)
(* cmd_unban is spliced in, and the rest of cmd_ban resumes in the middle  *)
(* of the owner's confirmation (line 2232).  What follows that point is    *)
(* intact: the notice to the user, the disconnect of the user's client,    *)
(* the log entry, and the else branch "Failed to ban user! Database        *)
(* error", which shows that the lost lines called db.ban_user.             *)
(***************************************************************************)
\* The supervisor's variables other than user_clients.
supRest == <<message_queues, queue_processors, processing_locks, session, queues,
             tasks, handlers, logout, ready, ntodo, counter, evCount, nLogouts,
             enq, started>>

\* /ban <u> by the owner, for a user not yet banned: the ban is stored and
\* the owner and the user are notified (lines 2148-2244).
BanStart(u) ==
    /\ Idle
    /\ ~banned[u]
    /\ banpc[u] = "idle"
    /\ banned' = [banned EXCEPT ![u] = TRUE]
    /\ banpc' = [banpc EXCEPT ![u] = "notified"]
    /\ UNCHANGED <<supVars, awaiting, botTasks, served, botCount>>

\* Lines 2246-2253: the user's client, if there is one, is disconnected and
\* removed from user_clients.  Nothing else of the user is touched.
BanDisconnect(u) ==
    /\ Idle
    /\ banpc[u] = "notified"
    /\ user_clients' = [user_clients EXCEPT ![u] = FALSE]
    /\ banpc' = [banpc EXCEPT ![u] = "done"]
    /\ UNCHANGED <<supRest, banned, awaiting, botTasks, served, botCount>>

\* The queue supervisor with the owner banning users (no /logout).
BanNext ==
    \/ \E u \in Users : Inbound(u) /\ UNCHANGED otherVars
    \/ \E h \in handlers : HandlerEnqueue(h) /\ UNCHANGED otherVars
    \/ \E u \in Users : \E t \in TaskIds(u) : WorkerStart(u, t) /\ UNCHANGED otherVars
    \/ \E u \in Users : \E t \in TaskIds(u) : WorkerGet(u, t) /\ UNCHANGED otherVars
    \/ \E u \in Users : \E t \in TaskIds(u) : \E ok \in BOOLEAN : WorkerClient(u, t, ok) /\ UNCHANGED otherVars
    \/ \E u \in Users : \E t \in TaskIds(u) : TransferReturn(u, t) /\ UNCHANGED otherVars
    \/ \E u \in Users : \E t \in TaskIds(u) : TransferRaise(u, t) /\ UNCHANGED otherVars
    \/ \E u \in Users : \E t \in TaskIds(u) : WorkerSleepDone(u, t) /\ UNCHANGED otherVars
    \/ \E u \in Users : BanStart(u) /\ UNCHANGED <<copyVars, cdVars, cfgVars, miscVars>>
    \/ \E u \in Users : BanDisconnect(u) /\ UNCHANGED <<copyVars, cdVars, cfgVars, miscVars>>

SpecBan == Init /\ [][BanNext]_vars

(***************************************************************************)
(* The bot's dialogue: handle_new_message and handle_callback              *)
(***************************************************************************)
\* Bound of the exploration: private messages and button callbacks.
MaxBotEvents == 3

\* The commands followed here, sent as /command or pressed as a button.
Commands == {"login", "addsource", "setdest"}

\* get_user_client (lines 331-386): the cached client, or one loaded from
\* the stored session and cached.
HasClient(u) == user_clients[u] \/ session[u]

\* The awaiting_* flags of user u after command c (lines 609-617,
\* 1018-1021, 1042-1045).
AfterCommand(u, c) ==
    IF c = "login"
    THEN IF HasClient(u) THEN awaiting[u] ELSE awaiting[u] \cup {"login"}
    ELSE IF c = "addsource"
    THEN (awaiting[u] \ {"destination"}) \cup {"source"}
    ELSE (awaiting[u] \ {"source"}) \cup {"destination"}

\* The command handler of c runs for the event e of user u.
RunCommand(e, c) ==
    /\ awaiting' = [awaiting EXCEPT ![e.user] = AfterCommand(e.user, c)]
    /\ user_clients' = [user_clients EXCEPT ![e.user] =
                           IF c = "login" THEN HasClient(e.user) ELSE @]
    /\ served' = IF e.late THEN served \cup {[user |-> e.user, kind |-> e.kind]}
                 ELSE served

\* A private message of user u with the text /c arrives: handle_new_message
\* runs up to its awaits get_sender, add_user and is_user_banned.
BotMessage(u, c) ==
    /\ Idle
    /\ botCount < MaxBotEvents
    /\ botCount' = botCount + 1
    /\ botTasks' = botTasks \cup {[user |-> u, kind |-> "message", data |-> c,
                                   late |-> banned[u], ev |-> botCount + 1]}
    /\ UNCHANGED <<supVars, banned, banpc, awaiting, served>>

\* await self.db.is_user_banned(user_id) (line 412).
IsBanned(u) == banned[u]

\* db.is_user_banned returns (lines 411-434).  A banned user gets "Access
\* Denied" and the handler returns.  Otherwise the message is dispatched
\* (436-475): text sent while a source or destination is awaited goes to
\* handle_channel_link, which leaves the flags as they are when the text
\* names no channel; a command goes to handle_command, which requires a
\* client for every command but /login (lines 501-508).
BotDispatch(e) ==
    /\ Idle
    /\ e \in botTasks
    /\ e.kind = "message"
    /\ botTasks' = botTasks \ {e}
    /\ IF IsBanned(e.user)
       THEN UNCHANGED <<awaiting, user_clients, served>>
       ELSE IF awaiting[e.user] \cap {"source", "destination"} # {}
       THEN /\ served' = IF e.late THEN served \cup {[user |-> e.user, kind |-> e.kind]}
                         ELSE served
            /\ UNCHANGED <<awaiting, user_clients>>
       ELSE IF e.data # "login" /\ ~HasClient(e.user)
       THEN UNCHANGED <<awaiting, user_clients, served>>
       ELSE /\ RunCommand(e, e.data)
    /\ UNCHANGED <<supRest, banned, banpc, botCount>>

\* A button of user u is pressed: handle_callback (lines 2347-2375) routes
\* by the button's data with no check.  addsource and setdest set their
\* flags before their first await; login first awaits event.answer.
BotCallback(u, c) ==
    /\ Idle
    /\ botCount < MaxBotEvents
    /\ botCount' = botCount + 1
    /\ LET e == [user |-> u, kind |-> "callback", data |-> c, late |-> banned[u],
                 ev |-> botCount + 1]
       IN IF c = "login"
          THEN /\ botTasks' = botTasks \cup {e}
               /\ UNCHANGED <<awaiting, user_clients, served>>
          ELSE /\ RunCommand(e, c)
               /\ UNCHANGED botTasks
    /\ UNCHANGED <<supRest, banned, banpc>>

\* event.answer("Starting login...") returns: cmd_login runs.
BotCallbackLogin(e) ==
    /\ Idle
    /\ e \in botTasks
    /\ e.kind = "callback"
    /\ botTasks' = botTasks \ {e}
    /\ RunCommand(e, "login")
    /\ UNCHANGED <<supRest, banned, banpc, botCount>>

BotNext ==
    \/ \E u \in Users : \E c \in Commands : BotMessage(u, c) /\ UNCHANGED <<copyVars, cdVars, cfgVars, miscVars>>
    \/ \E e \in botTasks : BotDispatch(e) /\ UNCHANGED <<copyVars, cdVars, cfgVars, miscVars>>
    \/ \E u \in Users : \E c \in Commands : BotCallback(u, c) /\ UNCHANGED <<copyVars, cdVars, cfgVars, miscVars>>
    \/ \E e \in botTasks : BotCallbackLogin(e) /\ UNCHANGED <<copyVars, cdVars, cfgVars, miscVars>>
    \/ \E u \in Users : BanStart(u) /\ UNCHANGED <<copyVars, cdVars, cfgVars, miscVars>>
    \/ \E u \in Users : BanDisconnect(u) /\ UNCHANGED <<copyVars, cdVars, cfgVars, miscVars>>

SpecBot == Init /\ [][BotNext]_vars


(***************************************************************************)
(* The supervisor in steady operation with the content of the jobs: the    *)
(* dict built by the handler (lines 1651-1660) and read by the worker      *)
(* (lines 250-272), while the user changes mode and destination.           *)
(***************************************************************************)
\* The handler builds message_data from the source it matched and the
\* destination it looked up, and puts it on the queue.
EnqueueJob(h) ==
    /\ HandlerEnqueue(h)
    /\ message_data' = [message_data EXCEPT ![h.user][h.ev] =
                           [mode |-> forward_mode[h.user], dest |-> dest_channel[h.user]]]
    /\ UNCHANGED <<destination, forward_mode, dest_channel, delivered_as, nChanges>>

\* Faulty variant of the worker: mode and destination are looked up when
\* the job is transferred.
JobData_Current(u, j) == [mode |-> forward_mode[u], dest |-> dest_channel[u]]

\* What the worker transfers job j with: source_channel.get('forward_mode')
\* and dest_channel_id of the dict taken from the queue (lines 252-254, 272).
JobData(u, j) == message_data[u][j]

\* A step of a worker; when it hands a job to the transfer, the mode and
\* the destination it uses are recorded.
WorkerStep(A) ==
    /\ A
    /\ delivered_as' = [u \in Users |-> [j \in 1..MaxEvents |->
                           IF /\ Len(started'[u]) > Len(started[u])
                              /\ started'[u][Len(started'[u])] = j
                           THEN JobData(u, j)
                           ELSE delivered_as[u][j]]]
    /\ UNCHANGED <<destination, forward_mode, dest_channel, message_data, nChanges>>

\* /mode <n> copy|forward: db.set_user_forward_mode (line 1267).
SetMode(u, m) ==
    /\ Idle
    /\ nChanges < MaxChanges
    /\ m # forward_mode[u]
    /\ forward_mode' = [forward_mode EXCEPT ![u] = m]
    /\ nChanges' = nChanges + 1
    /\ UNCHANGED <<supVars, destination, dest_channel, message_data, delivered_as>>

\* /setdest and the forwarded message that follows: db.set_user_destination
\* (lines 1470, 1543) with another channel.
ChangeDestination(u, d) ==
    /\ Idle
    /\ nChanges < MaxChanges
    /\ d # dest_channel[u]
    /\ dest_channel' = [dest_channel EXCEPT ![u] = d]
    /\ nChanges' = nChanges + 1
    /\ UNCHANGED <<supVars, destination, forward_mode, message_data, delivered_as>>

SnapshotNext ==
    \/ \E u \in Users : Inbound(u) /\ UNCHANGED otherVars
    \/ \E h \in handlers : EnqueueJob(h) /\ UNCHANGED <<copyVars, cdVars, banVars, miscVars>>
    \/ \E u \in Users : \E t \in TaskIds(u) : WorkerStep(WorkerStart(u, t)) /\ UNCHANGED <<copyVars, cdVars, banVars, miscVars>>
    \/ \E u \in Users : \E t \in TaskIds(u) : WorkerStep(WorkerGet(u, t)) /\ UNCHANGED <<copyVars, cdVars, banVars, miscVars>>
    \/ \E u \in Users : \E t \in TaskIds(u) : TransferReturn(u, t) /\ UNCHANGED otherVars
    \/ \E u \in Users : \E t \in TaskIds(u) : WorkerStep(TransferRaise(u, t)) /\ UNCHANGED <<copyVars, cdVars, banVars, miscVars>>
    \/ \E u \in Users : \E t \in TaskIds(u) : WorkerStep(WorkerSleepDone(u, t)) /\ UNCHANGED <<copyVars, cdVars, banVars, miscVars>>
    \/ \E u \in Users : \E m \in {"copy", "forward"} : SetMode(u, m) /\ UNCHANGED <<copyVars, cdVars, banVars, miscVars>>
    \/ \E u \in Users : \E d \in DestIds : ChangeDestination(u, d) /\ UNCHANGED <<copyVars, cdVars, banVars, miscVars>>

SpecSnapshot == Init /\ [][SnapshotNext]_vars

(***************************************************************************)
(* The per-attempt timeouts of _copy_message_with_media (lines 1766-1781   *)
(* and 1887-1890).  The code computes them in floating point from a size   *)
(* in bytes: size / (1024 * 1024) megabytes, divided by 1.5 (download) or  *)
(* 1.0 (upload) megabytes per second, plus a fixed allowance, and not      *)
(* below a floor.  The model keeps the arithmetic exact by counting the    *)
(* download timeout in units of 1/DlRate seconds and the upload timeout    *)
(* in units of 1/UpRate seconds: one byte then costs one unit.             *)
(***************************************************************************)

\* Bytes in a megabyte: 1024 * 1024 (lines 1776 and 1888).
MiB == 1024 * 1024

\* Bytes downloaded per second at 1.5 MB/s: 1.5 * 1024 * 1024 (line 1777).
DlRate == (3 * MiB) \div 2

\* Bytes uploaded per second at 1.0 MB/s: 1.0 * 1024 * 1024 (line 1889).
UpRate == MiB

\* The sizes, in bytes, a document declares and a downloaded file has.
Sizes ==
    {0, 1, MiB, 10 * MiB, 90 * MiB - 1, 90 * MiB, 90 * MiB + 1,
     120 * MiB - 1, 120 * MiB, 120 * MiB + 1, 150 * MiB, 200 * MiB,
     1000 * MiB}

\* message.media: a document declares its size; a photo, a media whose
\* document is missing or empty ("nosize") and every other kind of media
\* (web page, geo point, contact, ...) declare none.
Medias ==
    {[kind |-> "document", size |-> s] : s \in Sizes}
        \cup {[kind |-> k, size |-> 0] : k \in {"photo", "nosize", "other"}}

Max(a, b) == IF a >= b THEN a ELSE b

\* file_size of lines 1768-1773: the document's size, 10 MB for a photo,
\* 0 otherwise.
FileSize(m) ==
    CASE m.kind = "document" -> m.size
      [] m.kind = "photo"    -> 10 * MiB
      [] OTHER               -> 0

\* DownloadTimeout without the floor of 240 seconds.
DownloadTimeout_NoFloor(file_size) == file_size + 180 * DlRate

\* download_timeout = max(240, (file_size_mb / 1.5) + 180), line 1777, in
\* units of 1/DlRate seconds.
DownloadTimeout(file_size) == Max(240 * DlRate, file_size + 180 * DlRate)

\* upload_timeout = max(360, (file_size_mb / 1.0) + 240), line 1889, in
\* units of 1/UpRate seconds.
UploadTimeout(file_size) == Max(360 * UpRate, file_size + 240 * UpRate)

\* A message with media reaches the download loop (line 1759).
TimeoutInit ==
    /\ SupIdle
    /\ CopyIdle
    /\ CdIdle
    /\ BotIdle
    /\ ClientIdle
    /\ destination = [u \in Users |-> TRUE]
    /\ CfgIdle
    /\ media \in Medias
    /\ tpc = "download"
    /\ download_timeout = 0
    /\ file_size_actual = 0
    /\ upload_timeout = 0

\* Lines 1766-1777: the download timeout of an attempt.
ComputeDownloadTimeout ==
    /\ tpc = "download"
    /\ download_timeout' = DownloadTimeout(FileSize(media))
    /\ tpc' = "downloading"
    /\ UNCHANGED <<media, file_size_actual, upload_timeout>>

\* Lines 1784-1795: the download returns a path; lines 1824-1826 and 1887
\* read the size of the file, which need not be the declared one.
Downloaded(size) ==
    /\ tpc = "downloading"
    /\ file_size_actual' = size
    /\ tpc' = "upload"
    /\ UNCHANGED <<media, download_timeout, upload_timeout>>

\* Lines 1887-1889: the upload timeout of an attempt.
ComputeUploadTimeout ==
    /\ tpc = "upload"
    /\ upload_timeout' = UploadTimeout(file_size_actual)
    /\ tpc' = "uploading"
    /\ UNCHANGED <<media, download_timeout, file_size_actual>>

TimeoutNext ==
    \/ ComputeDownloadTimeout /\ UNCHANGED <<supVars, copyVars, cdVars, banVars, cfgVars, ban_cmd, gcVars, temp_clients>>
    \/ \E size \in Sizes :
           Downloaded(size) /\ UNCHANGED <<supVars, copyVars, cdVars, banVars, cfgVars, ban_cmd, gcVars, temp_clients>>
    \/ ComputeUploadTimeout /\ UNCHANGED <<supVars, copyVars, cdVars, banVars, cfgVars, ban_cmd, gcVars, temp_clients>>

SpecTimeout == TimeoutInit /\ [][TimeoutNext]_vars

(***************************************************************************)
(* /ban and /unban with their argument: cmd_ban (lines 2148-2277) and      *)
(* cmd_unban (lines 2279-2300).  handle_command splits the text of the     *)
(* message at white space (lines 487-490) and routes 'ban' and 'unban'     *)
(* only for the owner (lines 542-545); args[0] is an arbitrary word.       *)
(***************************************************************************)
\* Bound of the exploration: /ban and /unban commands of the owner.
MaxBans == 3

\* Longest argument followed.
MaxArgLen == 2

\* The characters of an argument.
Chars == {"+", "-", "0", "7", "8", "x"}

\* args[0]: a word of 1..MaxArgLen characters; <<>> stands for no argument.
Words == UNION {[1..n -> Chars] : n \in 0..MaxArgLen}

\* The ids of the model's accounts: the owner's id is self.owner_id.
owner_id == 7

IdOf(a) == CASE a = Owner -> owner_id [] a = "A" -> 8 [] a = "B" -> 78 [] OTHER -> 0

\* The account an id belongs to; every id not listed is the stranger's.
WhoIs(id) == IF \E a \in Users \cup {Owner} : IdOf(a) = id
             THEN CHOOSE a \in Users \cup {Owner} : IdOf(a) = id
             ELSE Stranger

DigitValue(c) == CASE c = "0" -> 0 [] c = "7" -> 7 [] c = "8" -> 8

RECURSIVE Decimal(_)
Decimal(ds) == IF ds = <<>> THEN 0
               ELSE 10 * Decimal(SubSeq(ds, 1, Len(ds) - 1)) + DigitValue(ds[Len(ds)])

\* int(args[0]) (lines 2161 and 2286): an optional sign and at least one
\* digit, leading zeros allowed; anything else raises ValueError.
ParseInt(w) ==
    LET signed == w # <<>> /\ w[1] \in {"+", "-"}
        digits == IF signed THEN Tail(w) ELSE w
    IN  IF digits = <<>> \/ \E i \in 1..Len(digits) : digits[i] \notin {"0", "7", "8"}
        THEN [ok |-> FALSE, val |-> 0]
        ELSE [ok |-> TRUE,
              val |-> IF signed /\ w[1] = "-" THEN 0 - Decimal(digits) ELSE Decimal(digits)]

\* IsOwner that never recognises the owner.
IsOwner_Never(id) == FALSE

\* `if ban_user_id == self.owner_id:` (line 2164).
IsOwner(id) == id = owner_id

\* The reply to the command is recorded.
Replied(c, w, r) ==
    ban_cmd' = [n |-> ban_cmd.n + 1, cmd |-> c, args |-> w, reply |-> r]

\* /ban <w> sent by the owner, the whole of cmd_ban up to its first
\* suspension after the ban is stored.
BanCommand(w) ==
    /\ ban_cmd.n < MaxBans
    /\ LET id == ParseInt(w) IN
       IF w = <<>>
       THEN \* lines 2150-2158: usage
            Replied("ban", w, "usage") /\ UNCHANGED <<supVars, banVars>>
       ELSE IF ~id.ok
       THEN \* except ValueError (line 2272)
            Replied("ban", w, "invalid") /\ UNCHANGED <<supVars, banVars>>
       ELSE IF IsOwner(id.val)
       THEN \* lines 2164-2166
            Replied("ban", w, "owner") /\ UNCHANGED <<supVars, banVars>>
       ELSE IF banned[WhoIs(id.val)]
       THEN \* line 2169: already banned
            Replied("ban", w, "already") /\ UNCHANGED <<supVars, banVars>>
       ELSE IF WhoIs(id.val) \in Users
       THEN \* the ban of a user of the bot: stored, then the notices and the
            \* disconnect of lines 2246-2253 follow
            /\ banned' = [banned EXCEPT ![WhoIs(id.val)] = TRUE]
            /\ banpc' = [banpc EXCEPT ![WhoIs(id.val)] = "notified"]
            /\ Replied("ban", w, "banned")
            /\ UNCHANGED <<supVars, awaiting, botTasks, served, botCount>>
       ELSE \* the ban of an account without client (line 2252 finds none)
            /\ banned' = [banned EXCEPT ![WhoIs(id.val)] = TRUE]
            /\ Replied("ban", w, "banned")
            /\ UNCHANGED <<supVars, banpc, awaiting, botTasks, served, botCount>>

\* /unban <w> sent by the owner: cmd_unban, the definition of line 2279,
\* which replaces the one of line 2170.
UnbanCommand(w) ==
    /\ ban_cmd.n < MaxBans
    /\ LET id == ParseInt(w) IN
       IF w = <<>>
       THEN Replied("unban", w, "usage") /\ UNCHANGED <<supVars, banVars>>
       ELSE IF ~id.ok
       THEN Replied("unban", w, "invalid") /\ UNCHANGED <<supVars, banVars>>
       ELSE /\ banned' = [banned EXCEPT ![WhoIs(id.val)] = FALSE]
            /\ Replied("unban", w, "unbanned")
            /\ UNCHANGED <<supVars, banpc, awaiting, botTasks, served, botCount>>

OwnerNext ==
    \/ \E w \in Words : BanCommand(w) /\ UNCHANGED <<copyVars, cdVars, cfgVars, toVars, gcVars, temp_clients>>
    \/ \E w \in Words : UnbanCommand(w) /\ UNCHANGED <<copyVars, cdVars, cfgVars, toVars, gcVars, temp_clients>>
    \/ \E u \in Users : BanDisconnect(u) /\ UNCHANGED <<copyVars, cdVars, cfgVars, miscVars>>

SpecOwner == Init /\ [][OwnerNext]_vars

(***************************************************************************)
(* get_user_client (lines 331-386) called concurrently.  The bot's client  *)
(* runs every private message in a task of its own, and handle_command     *)
(* (line 502), cmd_start (558), cmd_login (612) and the worker (266) all   *)
(* call get_user_client.  Nothing is loaded at start-up: after a restart   *)
(* user_clients is empty while the sessions are stored in the database.    *)
(* A call tests the cache (line 333), then suspends on the session lookup  *)
(* (337), on connect (357) and on is_user_authorized (367), and only then  *)
(* stores the client and registers the handler (368-376).                  *)
(***************************************************************************)
\* Bound of the exploration: calls of get_user_client.
MaxCalls == 3

\* The number of a call names the client it creates.
NewCall(u, pc, c) == [user |-> u, pc |-> pc, client |-> c]

\* Lines 333-337: a call finds the cached client and returns it, or starts
\* the session lookup.
GetUserClient(u) ==
    /\ Len(gcalls) < MaxCalls
    /\ gcalls' = Append(gcalls,
                        IF client_cache[u] # 0
                        THEN NewCall(u, "returned", client_cache[u])
                        ELSE NewCall(u, "lookup", 0))
    /\ UNCHANGED <<client_cache, live_clients, last_jobs>>

\* Lines 337-353: the lookup returns; with a stored session a client is
\* created, otherwise the call returns None.
SessionLoaded(i) ==
    /\ gcalls[i].pc = "lookup"
    /\ gcalls' = [gcalls EXCEPT ![i] =
                     IF session[gcalls[i].user]
                     THEN NewCall(gcalls[i].user, "connect", i)
                     ELSE NewCall(gcalls[i].user, "none", 0)]
    /\ UNCHANGED <<client_cache, live_clients, last_jobs>>

\* Lines 355-365: connect succeeds within three attempts, or the call
\* returns None.
ClientConnected(i, ok) ==
    /\ gcalls[i].pc = "connect"
    /\ gcalls' = [gcalls EXCEPT ![i].pc = IF ok THEN "authorize" ELSE "none"]
    /\ UNCHANGED <<client_cache, live_clients, last_jobs>>

\* Lines 367-381: an authorized client is stored in user_clients and gets
\* the channel handler; an unauthorized one is disconnected.
ClientAuthorized(i, ok) ==
    /\ gcalls[i].pc = "authorize"
    /\ LET u == gcalls[i].user IN
       IF ok
       THEN /\ client_cache' = [client_cache EXCEPT ![u] = i]
            /\ live_clients' = [live_clients EXCEPT ![u] = @ \cup {i}]
            /\ gcalls' = [gcalls EXCEPT ![i].pc = "returned"]
       ELSE /\ gcalls' = [gcalls EXCEPT ![i].pc = "none"]
            /\ UNCHANGED <<client_cache, live_clients>>
    /\ UNCHANGED last_jobs

\* A message is posted in a source channel of user u.  Telegram pushes the
\* update to the connections of the account: which of several connections
\* of one session receive it is Telegram's choice, at least one does.
\* Each client that receives it runs handle_user_channel_message
\* (lines 1566-1662), which enqueues a job.
ChannelMessage(u, receivers) ==
    /\ receivers # {}
    /\ receivers \subseteq live_clients[u]
    /\ last_jobs' = [last_jobs EXCEPT ![u] = Cardinality(receivers)]
    /\ UNCHANGED <<gcalls, client_cache, live_clients>>

ClientInit ==
    /\ SupRestIdle
    /\ user_clients = [u \in Users |-> FALSE]
    /\ CopyIdle
    /\ CdIdle
    /\ BotIdle
    /\ ClientIdle
    /\ destination = [u \in Users |-> TRUE]
    /\ CfgIdle
    /\ TimeoutIdle

ClientRest == <<supRest, copyVars, cdVars, banVars, cfgVars, toVars, ban_cmd, temp_clients>>

ClientNext ==
    \/ \E u \in Users : GetUserClient(u) /\ UNCHANGED <<user_clients, ClientRest>>
    \/ \E i \in 1..Len(gcalls) : SessionLoaded(i) /\ UNCHANGED <<user_clients, ClientRest>>
    \/ \E i \in 1..Len(gcalls) : \E ok \in BOOLEAN :
           ClientConnected(i, ok) /\ UNCHANGED <<user_clients, ClientRest>>
    \/ \E i \in 1..Len(gcalls) : \E ok \in BOOLEAN :
           /\ ClientAuthorized(i, ok)
           /\ user_clients' = [u \in Users |-> client_cache'[u] # 0]
           /\ UNCHANGED ClientRest
    \/ \E u \in Users : \E receivers \in SUBSET live_clients[u] :
           ChannelMessage(u, receivers) /\ UNCHANGED <<user_clients, ClientRest>>

SpecClient == ClientInit /\ [][ClientNext]_vars

(***************************************************************************)
(* The login and set-up dialogue: handle_new_message (lines 388-483),      *)
(* cmd_login, handle_phone_number, handle_verification_code,               *)
(* handle_2fa_password (609-850), cmd_logout (851-909), cmd_addsource,     *)
(* cmd_setdest (1018-1045), handle_channel_link (1313-1496),               *)
(* handle_forwarded_message (1497-1565) and handle_callback (2347-2375).   *)
(* The bot's client runs every update in a task of its own, so a handler   *)
(* suspended at an await interleaves with the handlers of later updates.   *)
(* awaiting[u] holds the awaiting_* flags of u that are True; temp_clients *)
(* stands for temp_clients, user_phones and user_phone_code_hash, which    *)
(* are stored and removed together.  A user here has no queue.             *)
(***************************************************************************)
\* What a user sends in private: the commands, a phone number ("+..."),
\* any other text (a code, a password, a channel link) and a forwarded
\* channel message.
Texts == Commands \cup {"logout", "phone", "text", "forward"}

\* The flags of the login dialogue and of the channel set-up.
LoginFlags == {"login", "code", "password"}

SetupFlags == {"source", "destination"}

\* The supervisor's variables other than user_clients and session.
queueVars == <<message_queues, queue_processors, processing_locks, queues, tasks,
               handlers, logout, ready, ntodo, counter, evCount, nLogouts, enq, started>>

\* A handler of user u suspended at the await named by kind.
Suspended(e, kind) == [e EXCEPT !.kind = kind]

\* The flags of u with the set off removed and the set on added.
Flags(u, off, on) == [awaiting EXCEPT ![u] = (@ \ off) \cup on]

\* Bound of the exploration: private messages and button callbacks of the
\* dialogue.
MaxDialog == 4

\* A private message of user u arrives: handle_new_message runs up to its
\* awaits get_sender, add_user and is_user_banned (lines 394-412).
DlgMessage(u, x) ==
    /\ botCount < MaxDialog
    /\ botCount' = botCount + 1
    /\ botTasks' = botTasks \cup {[user |-> u, kind |-> "message", data |-> x,
                                   late |-> FALSE, ev |-> botCount + 1]}
    /\ UNCHANGED <<awaiting, user_clients, session, served, temp_clients, destination>>

\* The message is dispatched (lines 436-475), in this order: a pending
\* code, a pending password, a forwarded message, text while a channel is
\* awaited, a command, a phone number while the login is awaited.  The
\* handler chosen runs up to its first await.
DlgDispatch(e) ==
    /\ e \in botTasks
    /\ e.kind = "message"
    /\ LET u == e.user
           rest == botTasks \ {e}
       IN IF "code" \in awaiting[u]
          THEN \* handle_verification_code: sign_in, or "session expired"
               /\ botTasks' = rest \cup {Suspended(e, IF temp_clients[u] THEN "sign_in"
                                                      ELSE "code_expired")}
               /\ UNCHANGED <<awaiting, user_clients, served>>
          ELSE IF "password" \in awaiting[u]
          THEN \* handle_2fa_password
               /\ botTasks' = rest \cup {Suspended(e, IF temp_clients[u] THEN "sign_in_2fa"
                                                      ELSE "password_expired")}
               /\ UNCHANGED <<awaiting, user_clients, served>>
          ELSE IF e.data = "forward" \/ awaiting[u] \cap SetupFlags # {}
          THEN \* handle_forwarded_message, handle_channel_link: get_user_client
               \* and the look-up of the channel
               /\ botTasks' = rest \cup {Suspended(e, "lookup")}
               /\ UNCHANGED <<awaiting, user_clients, served>>
          ELSE IF e.data = "logout"
          THEN \* handle_command requires a client (lines 501-508); cmd_logout
               \* finds no queue processor and awaits the disconnect (874)
               /\ botTasks' = IF HasClient(u) THEN rest \cup {Suspended(e, "disconnect")}
                              ELSE rest
               /\ user_clients' = [user_clients EXCEPT ![u] = HasClient(u)]
               /\ UNCHANGED <<awaiting, served>>
          ELSE IF e.data \in Commands
          THEN /\ botTasks' = rest
               /\ IF e.data # "login" /\ ~HasClient(u)
                  THEN UNCHANGED <<awaiting, user_clients, served>>
                  ELSE RunCommand(e, e.data)
          ELSE IF e.data = "phone" /\ "login" \in awaiting[u]
          THEN \* handle_phone_number: connect and send_code_request
               /\ botTasks' = rest \cup {Suspended(e, "send_code")}
               /\ UNCHANGED <<awaiting, user_clients, served>>
          ELSE \* the default reply
               /\ botTasks' = rest
               /\ UNCHANGED <<awaiting, user_clients, served>>
    /\ UNCHANGED <<botCount, session, temp_clients, destination>>

\* handle_phone_number resumes (lines 644-686): the code is sent, the
\* connection fails (lines 650-653), or send_code_request raises.
PhoneDone(e, result) ==
    /\ e \in botTasks
    /\ e.kind = "send_code"
    /\ botTasks' = botTasks \ {e}
    /\ awaiting' = Flags(e.user, {"login"}, IF result = "sent" THEN {"code"} ELSE {})
    /\ temp_clients' = [temp_clients EXCEPT ![e.user] =
                           CASE result = "sent"    -> TRUE
                             [] result = "refused" -> @
                             [] OTHER              -> FALSE]
    /\ UNCHANGED <<botCount, user_clients, session, served, destination>>

\* handle_verification_code without a stored login client (lines 694-704).
CodeExpired(e) ==
    /\ e \in botTasks
    /\ e.kind = "code_expired"
    /\ botTasks' = botTasks \ {e}
    /\ awaiting' = Flags(e.user, {"code"}, {})
    /\ temp_clients' = [temp_clients EXCEPT ![e.user] = FALSE]
    /\ UNCHANGED <<botCount, user_clients, session, served, destination>>

\* sign_in returns (lines 709-772): signed in (the session is saved and the
\* client stored, the flag is cleared after the replies), the account asks
\* for its password, or an error.
CodeDone(e, result) ==
    /\ e \in botTasks
    /\ e.kind = "sign_in"
    /\ IF result = "signed_in"
       THEN /\ botTasks' = (botTasks \ {e}) \cup {Suspended(e, "code_cleanup")}
            /\ session' = [session EXCEPT ![e.user] = TRUE]
            /\ user_clients' = [user_clients EXCEPT ![e.user] = TRUE]
            /\ UNCHANGED awaiting
       ELSE /\ botTasks' = botTasks \ {e}
            /\ awaiting' = Flags(e.user, {"code"},
                                 IF result = "password_needed" THEN {"password"} ELSE {})
            /\ UNCHANGED <<session, user_clients>>
    /\ UNCHANGED <<botCount, served, temp_clients, destination>>

\* Lines 752-758 and 825-831: the clean-up after a successful login.
LoginCleanup(e) ==
    /\ e \in botTasks
    /\ e.kind \in {"code_cleanup", "password_cleanup"}
    /\ botTasks' = botTasks \ {e}
    /\ awaiting' = Flags(e.user, IF e.kind = "code_cleanup" THEN {"code"} ELSE {"password"}, {})
    /\ temp_clients' = [temp_clients EXCEPT ![e.user] = FALSE]
    /\ UNCHANGED <<botCount, user_clients, session, served, destination>>

\* handle_2fa_password without a stored login client (lines 780-784).
PasswordExpired(e) ==
    /\ e \in botTasks
    /\ e.kind = "password_expired"
    /\ botTasks' = botTasks \ {e}
    /\ awaiting' = Flags(e.user, {"password"}, {})
    /\ UNCHANGED <<botCount, user_clients, session, served, temp_clients, destination>>

\* sign_in(password=...) returns (lines 786-850).
PasswordDone(e, ok) ==
    /\ e \in botTasks
    /\ e.kind = "sign_in_2fa"
    /\ IF ok
       THEN /\ botTasks' = (botTasks \ {e}) \cup {Suspended(e, "password_cleanup")}
            /\ session' = [session EXCEPT ![e.user] = TRUE]
            /\ user_clients' = [user_clients EXCEPT ![e.user] = TRUE]
            /\ UNCHANGED <<awaiting, temp_clients>>
       ELSE /\ botTasks' = botTasks \ {e}
            /\ awaiting' = Flags(e.user, {"password"}, {})
            /\ temp_clients' = [temp_clients EXCEPT ![e.user] = FALSE]
            /\ UNCHANGED <<session, user_clients>>
    /\ UNCHANGED <<botCount, served, destination>>

\* The channel of a link or of a forwarded message has been looked up
\* (lines 1315-1439, 1499-1515); found tells whether a client and a channel
\* were obtained.  The flag that is True now selects the branch (lines
\* 1442, 1458, 1518, 1542), which awaits the database.
ChannelResolved(e, found) ==
    /\ e \in botTasks
    /\ e.kind = "lookup"
    /\ found => HasClient(e.user)
    /\ botTasks' =
          (botTasks \ {e}) \cup
          (IF ~found THEN {}
           ELSE IF "source" \in awaiting[e.user] THEN {Suspended(e, "add_source")}
           ELSE IF "destination" \in awaiting[e.user] THEN {Suspended(e, "set_destination")}
           ELSE {})
    /\ user_clients' = [user_clients EXCEPT ![e.user] = IF found THEN TRUE ELSE @]
    /\ UNCHANGED <<botCount, awaiting, session, served, temp_clients, destination>>

\* The set-up flags of user u after the branch named by kind has completed
\* and kept every flag.
AfterChannel_Keep(u, kind) == awaiting

\* The set-up flags of user u after the branch named by kind has completed
\* (lines 1455, 1480, 1539, 1561).
AfterChannel(u, kind) ==
    Flags(u, IF kind = "add_source" THEN {"source"} ELSE {"destination"}, {})

\* db.add_user_source_channel or db.set_user_destination and the reply
\* have returned: the channel add or the destination set is complete.
ChannelDone(e) ==
    /\ e \in botTasks
    /\ e.kind \in {"add_source", "set_destination"}
    /\ botTasks' = botTasks \ {e}
    /\ awaiting' = AfterChannel(e.user, e.kind)
    /\ destination' = [destination EXCEPT ![e.user] =
                          IF e.kind = "set_destination" THEN TRUE ELSE @]
    /\ UNCHANGED <<botCount, user_clients, session, served, temp_clients>>

\* cmd_logout after the disconnect (lines 875-895): the client and the
\* login state are removed, the three login flags are set to False, and the
\* handler awaits the deletion of the session.
DlgLogoutDisconnected(e) ==
    /\ e \in botTasks
    /\ e.kind = "disconnect"
    /\ botTasks' = (botTasks \ {e}) \cup {Suspended(e, "delete_session")}
    /\ user_clients' = [user_clients EXCEPT ![e.user] = FALSE]
    /\ temp_clients' = [temp_clients EXCEPT ![e.user] = FALSE]
    /\ awaiting' = Flags(e.user, LoginFlags, {})
    /\ UNCHANGED <<botCount, session, served, destination>>

\* db.delete_user_session returns (line 895).
DlgLogoutDeleted(e) ==
    /\ e \in botTasks
    /\ e.kind = "delete_session"
    /\ botTasks' = botTasks \ {e}
    /\ session' = [session EXCEPT ![e.user] = FALSE]
    /\ UNCHANGED <<botCount, awaiting, user_clients, served, temp_clients, destination>>

\* User A has never logged in and has just sent /login (lines 609-617),
\* user B is logged in.
DialogInit ==
    /\ QueuesIdle
    /\ session = [u \in Users |-> u # "A"]
    /\ user_clients = [u \in Users |-> u # "A"]
    /\ CopyIdle
    /\ CdIdle
    /\ banned = [u \in Accounts |-> FALSE]
    /\ banpc = [u \in Users |-> "idle"]
    /\ awaiting = [u \in Users |-> IF u = "A" THEN {"login"} ELSE {}]
    /\ botTasks = {}
    /\ served = {}
    /\ botCount = 0
    /\ ban_cmd = [n |-> 0, cmd |-> "none", args |-> <<>>, reply |-> "none"]
    /\ temp_clients = [u \in Users |-> FALSE]
    /\ ClientIdle
    /\ destination = [u \in Users |-> FALSE]
    /\ CfgIdle
    /\ TimeoutIdle

\* What the dialogue leaves alone.
DialogRest == <<queueVars, copyVars, cdVars, banned, banpc, forward_mode, dest_channel,
                message_data, delivered_as, nChanges, toVars, ban_cmd, gcVars>>

DialogNext ==
    \/ \E u \in Users : \E x \in Texts : DlgMessage(u, x) /\ UNCHANGED DialogRest
    \/ \E e \in botTasks : DlgDispatch(e) /\ UNCHANGED DialogRest
    \/ \E u \in Users : \E c \in Commands :
           BotCallback(u, c) /\ UNCHANGED <<copyVars, cdVars, cfgVars, miscVars>>
    \/ \E e \in botTasks :
           BotCallbackLogin(e) /\ UNCHANGED <<copyVars, cdVars, cfgVars, miscVars>>
    \/ \E e \in botTasks : \E result \in {"sent", "refused", "error"} :
           PhoneDone(e, result) /\ UNCHANGED DialogRest
    \/ \E e \in botTasks : CodeExpired(e) /\ UNCHANGED DialogRest
    \/ \E e \in botTasks : \E result \in {"signed_in", "password_needed", "error"} :
           CodeDone(e, result) /\ UNCHANGED DialogRest
    \/ \E e \in botTasks : LoginCleanup(e) /\ UNCHANGED DialogRest
    \/ \E e \in botTasks : PasswordExpired(e) /\ UNCHANGED DialogRest
    \/ \E e \in botTasks : \E ok \in BOOLEAN : PasswordDone(e, ok) /\ UNCHANGED DialogRest
    \/ \E e \in botTasks : \E found \in BOOLEAN :
           ChannelResolved(e, found) /\ UNCHANGED DialogRest
    \/ \E e \in botTasks : ChannelDone(e) /\ UNCHANGED DialogRest
    \/ \E e \in botTasks : DlgLogoutDisconnected(e) /\ UNCHANGED DialogRest
    \/ \E e \in botTasks : DlgLogoutDeleted(e) /\ UNCHANGED DialogRest

SpecDialog == DialogInit /\ [][DialogNext]_vars
(***************************************************************************)
(* Claims about the queue supervisor                                       *)
(***************************************************************************)
\* s lists its message ids in ascending order.
Ascending(s) == \A i, j \in 1..Len(s) : i < j => s[i] < s[j]

\* The elements of sequence s.
Range(s) == {s[i] : i \in 1..Len(s)}

\* C1 (as claimed).  FIFO: for every user, the jobs are handed to the
\* transfer step in the order in which they were put on the user's queue.
C1_Fifo ==
    \A u \in Users : \A i, j \in 1..Len(started[u]) :
        i < j => PosIn(enq[u], started[u][i]) < PosIn(enq[u], started[u][j])

\* C2 (as claimed).  Single-worker property: for every user at most one
\* transfer (forward or copy) is in flight in every reachable state.
C2_OneTransferInFlight == \A u \in Users : Cardinality(InFlight(u)) <= 1

\* C3 (as claimed).  In every reachable state at most one worker task that
\* has not finished exists per user.
C3_OneLiveWorker == \A u \in Users : Cardinality(LiveWorkers(u)) <= 1

\* C4.  Race-free get-or-create: whatever the order in which concurrently
\* suspended handlers of a user resume, one queue and one worker are created
\* for the user, the maps point at them, and every job put so far is in that
\* queue or has been taken from it by that worker, in the order of the puts.
C4_GetOrCreate ==
    \A u \in Users :
        /\ Len(queues[u]) <= 1
        /\ Len(tasks[u]) <= 1
        /\ enq[u] # <<>> =>
              /\ Len(queues[u]) = 1 /\ message_queues[u] = 1
              /\ Len(tasks[u]) = 1 /\ queue_processors[u] = 1
              /\ enq[u] = started[u] \o queues[u][1].items

\* C4 witness: the handlers of events 1 and 2 of user A were suspended
\* together with no queue (2 was put first, so 1 was still suspended), and
\* both jobs went through the single queue.
C4_Witness ==
    /\ evCount["A"] >= 2
    /\ Len(enq["A"]) >= 2 /\ enq["A"][1] = 2 /\ enq["A"][2] = 1
    /\ Len(queues["A"]) = 1 /\ Len(tasks["A"]) = 1

\* The step is the transfer of task t of user u raising.
Raises(u, t) ==
    /\ tasks[u][t].pc = "transfer"
    /\ ~tasks[u][t].cancel /\ ~tasks'[u][t].cancel
    /\ tasks'[u][t] # tasks[u][t]
    /\ counter' = counter

\* C5.  Isolation within a user: when the transfer of a job raises, the
\* worker does not terminate (only the poison pill of /logout ends it); the
\* next job of its queue is taken in the same step and handed to the
\* transfer (after get_user_client, when the client is not cached), or, the
\* queue being empty, the worker waits as a getter of its queue for the next
\* put.
C5_RaiseKeepsWorker ==
    [][\A u \in Users : \A t \in TaskIds(u) :
          Raises(u, t) =>
             LET q == tasks[u][t].q
                 items == queues[u][q].items
             IN /\ items = <<>> =>
                      /\ tasks'[u][t].pc = "get" /\ tasks'[u][t].q = q
                      /\ t \in Range(queues'[u][q].getters)
                /\ (items # <<>> /\ Head(items) # Stop) =>
                      /\ tasks'[u][t].pc \in {"transfer", "client"}
                      /\ tasks'[u][t].q = q
                      /\ tasks'[u][t].job = Head(items)
                      /\ queues'[u][q].items = Tail(items)
                      /\ user_clients[u] =>
                            /\ tasks'[u][t].pc = "transfer"
                            /\ started'[u] = Append(started[u], Head(items))]_vars

\* C5 witness: no transfer has returned, yet the worker of user A has been
\* handed a second job: the transfer of its first job raised.
C5_Witness ==
    /\ counter = 0
    /\ Len(started["A"]) >= 2
    /\ InFlight("A") # {}

\* The jobs of user u put so far are all handed to the transfer eventually.
Served(u) ==
    \A e \in 1..MaxEvents : (e \in Range(enq[u])) ~> (e \in Range(started[u]))

\* C6.  Isolation across users: a step of a worker of one user leaves every
\* other user's queues, map entries and processing flag unchanged; and with
\* nothing assumed about when the transfers of user A end, every job put
\* for user B is handed to the transfer by B's worker.
C6_UsersIsolated ==
    /\ [][\A u, v \in Users :
            (u # v /\ tasks'[u] # tasks[u]) =>
               /\ queues'[v] = queues[v]
               /\ processing_locks'[v] = processing_locks[v]
               /\ message_queues'[v] = message_queues[v]
               /\ queue_processors'[v] = queue_processors[v]
               /\ tasks'[v] = tasks[v]]_vars
    /\ Served("B")

\* C6 witness: the first job of user A is still in flight and user B's
\* worker has meanwhile been handed two jobs.
C6_Witness ==
    /\ started["A"] = <<1>>
    /\ InFlight("A") # {}
    /\ Len(started["B"]) >= 2

\* C7 (as claimed).  Arrival order is processing order: the jobs of a user
\* are enqueued, and handed to the transfer, in the order in which their
\* events were delivered to handle_user_channel_message (ascending ids).
C7_ArrivalOrder == \A u \in Users : Ascending(enq[u]) /\ Ascending(started[u])

(***************************************************************************)
(* Claims about the transfer of one job                                    *)
(***************************************************************************)
\* The send e carries no content of the job: the progress message.
IsNotice(e) == e[1] = "notice"

\* The send e carries content of the job.
IsContent(e) == e[1] # "notice"

\* Some content of the job has reached the destination.
ContentDelivered == \E i \in 1..Len(sendLog) : IsContent(sendLog[i]) /\ sendLog[i][2]

\* C8 (as claimed).  When the job is over, the counter has been incremented
\* (once) if and only if content of the job was delivered to the
\* destination by a forward, a copy or a fallback copy.
C8_CountsDelivered ==
    outcome # "none" => (counter = 1 <=> ContentDelivered)

\* Scenario D is over: a copy job with media and a caption, every download
\* attempt of which has failed.
ScenarioD ==
    /\ msg.mode = "copy" \/ msg.restricted
    /\ msg.media /\ msg.text
    /\ dlTries = max_download_retries
    /\ ~downloaded_path
    /\ outcome # "none"

\* C9 (as claimed).  In Scenario D exactly one message, the caption text, is
\* sent to the destination, no media is sent and the job is not taken again.
C9_OneMessage ==
    ScenarioD =>
       /\ sendLog = << <<"text", TRUE>> >>
       /\ started["A"] = <<1>>

\* C9 (amended).  In Scenario D the progress message is sent to the
\* destination first (one send, whose failure is ignored) and then the
\* caption text, once.  When the caption send succeeds nothing else is
\* sent.  Only when it raises is the message sent once by media reference
\* and, that raising too, the caption once more, whose failure fails the
\* job.  send_file is never called and the job is taken only once.
C9_CaptionAfterNotice ==
    ScenarioD =>
       LET notices == SelectSeq(sendLog, IsNotice)
           sends   == SelectSeq(sendLog, IsContent)
       IN /\ Len(notices) = 1 /\ IsNotice(sendLog[1])
          /\ upTries = 0
          /\ sends \in { << <<"text", TRUE>> >>,
                         << <<"text", FALSE>>, <<"mediaref", TRUE>> >>,
                         << <<"text", FALSE>>, <<"mediaref", FALSE>>, <<"text", TRUE>> >>,
                         << <<"text", FALSE>>, <<"mediaref", FALSE>>, <<"text", FALSE>> >> }
          /\ outcome = "raised" <=> sends[Len(sends)] = <<"text", FALSE>>
          /\ started["A"] = <<1>> /\ queues["A"][1].items = <<>>

\* C9 witness: Scenario D with both sends delivered: the destination holds
\* the progress message and the caption.
C9_Witness ==
    /\ ScenarioD
    /\ outcome = "returned"
    /\ sendLog = << <<"notice", TRUE>>, <<"text", TRUE>> >>

\* C10 (as claimed).  In Scenario D with only the caption text delivered,
\* the counter is not incremented for the job.
C10_CaptionNotCounted ==
    (ScenarioD /\ SelectSeq(sendLog, IsContent) = << <<"text", TRUE>> >>) => counter = 0


(***************************************************************************)
(* Scenarios of the transfer                                               *)
(***************************************************************************)
\* C11.  Scenario A: the job of a copy-mode source whose message has text
\* and no media issues exactly one send to the destination, a text send;
\* when that send is delivered the transfer returns and the counter has
\* grown by exactly 1, and when it raises the job fails and the counter is
\* unchanged.
C11_TextOnly ==
    (msg.mode = "copy" /\ ~msg.media /\ msg.text /\ outcome # "none") =>
       /\ Len(sendLog) = 1
       /\ sendLog[1][1] = "text"
       /\ dlTries = 0 /\ upTries = 0
       /\ sendLog[1][2] => (outcome = "returned" /\ counter = 1)
       /\ ~sendLog[1][2] => (outcome = "raised" /\ counter = 0)

\* C11 witness: the text of a copy-mode text-only job has been delivered.
C11_Witness ==
    /\ msg.mode = "copy" /\ ~msg.media /\ msg.text
    /\ sendLog = << <<"text", TRUE>> >>
    /\ counter = 1

\* The log s holds no reference-forward.
NoForward(s) == \A i \in 1..Len(s) : s[i][1] # "forward"

\* C12.  Scenario B: for a job whose message is restricted no
\* reference-forward is ever issued, in copy mode and in forward mode; the
\* copy path runs, and when the copy delivers the content the counter has
\* grown by 1.
C12_RestrictedCopied ==
    msg.restricted =>
       /\ cpc # "forward"
       /\ NoForward(sendLog)
       /\ (outcome # "none" /\ ContentDelivered) =>
              (outcome = "returned" /\ counter = 1)

\* C12 witness: a restricted media message of a forward-mode source has
\* been downloaded and uploaded.
C12_Witness ==
    /\ msg.restricted /\ msg.mode = "forward" /\ msg.media
    /\ outcome = "returned"
    /\ upload_success
    /\ counter = 1

\* C14 (as claimed).  Temp-file cleanup: when the transfer of a message with
\* media is over, by return or by exception, no file created during the
\* call remains: neither the downloaded media file nor a thumbnail.
C14_NoTempFiles == (msg.media /\ outcome # "none") => files = {}

(***************************************************************************)
(* Claims about the 'ignored' warning                                      *)
(***************************************************************************)
\* C13.  Cooldown: for every user and every channel outside the user's
\* source list, two warnings are at least 300 seconds apart, so that a
\* window of 300 seconds (its end excluded) holds at most one warning,
\* however many events arrive and in whatever order their handlers resume.
C13_Cooldown ==
    \A u \in Users : \A c \in Channels :
        \A i, j \in 1..Len(warned[u][c]) :
            i < j => warned[u][c][j] - warned[u][c][i] >= Cooldown

\* C13 witness: three events of channel X for user A, handled at 0, before
\* and at 300 seconds: the second was silenced, the third warned again.
C13_Witness ==
    /\ warned["A"]["X"] = <<0, 300>>
    /\ cdCount = 3
    /\ cdHandlers = {}
    /\ warned["A"]["Y"] = <<>> /\ warned["B"]["X"] = <<>> /\ warned["B"]["Y"] = <<>>

(***************************************************************************)
(* Claims about the outcome of the transfer                                *)
(***************************************************************************)
\* C17 (as claimed).  No silent no-op: the transfer of a job returns
\* normally only when content of the job has been delivered to the
\* destination; else it raises to the worker.
C17_NoSilentNoOp == outcome = "returned" => ContentDelivered

\* The sends of the log s after its first entry.
AfterFirst(s) == SubSeq(s, 2, Len(s))

\* C20.  Forward fallback: for an unrestricted job in forward mode the
\* reference-forward is issued once and first.  When it succeeds nothing
\* else is sent and the counter has grown by 1.  When it raises, the copy
\* path runs once for the same job (at most one progress message, at most 3
\* downloads and 3 uploads, no second forward); the job fails only when the
\* copy raises, which is when its last text send raised; and a fallback that
\* delivers content returns with the counter grown by exactly 1.
C20_ForwardFallback ==
    (msg.mode = "forward" /\ ~msg.restricted /\ outcome # "none") =>
       /\ sendLog # <<>>
       /\ sendLog[1][1] = "forward"
       /\ NoForward(AfterFirst(sendLog))
       /\ started["A"] = <<1>>
       /\ counter <= 1
       /\ sendLog[1][2] =>
             (sendLog = << <<"forward", TRUE>> >> /\ outcome = "returned" /\ counter = 1)
       /\ ~sendLog[1][2] =>
             /\ Len(SelectSeq(sendLog, IsNotice)) <= 1
             /\ dlTries <= max_download_retries /\ upTries <= max_upload_retries
             /\ msg.media => dlTries >= 1
             /\ (~msg.media /\ msg.text) => Len(sendLog) = 2
             /\ outcome = "raised" <=>
                   (Len(sendLog) >= 2 /\ sendLog[Len(sendLog)] = <<"text", FALSE>>)
             /\ ContentDelivered => (outcome = "returned" /\ counter = 1)
       /\ outcome = "raised" => (~sendLog[1][2] /\ counter = 0)

\* C20 witness: the forward raised and the fallback copy uploaded the media.
C20_Witness ==
    /\ msg.mode = "forward" /\ ~msg.restricted /\ msg.media
    /\ sendLog # <<>>
    /\ sendLog[1] = <<"forward", FALSE>>
    /\ upload_success
    /\ outcome = "returned"
    /\ counter = 1

(***************************************************************************)
(* Claims about shutdown and pacing                                        *)
(***************************************************************************)
\* The step ends the shutdown part of cmd_logout for user u, who had a
\* worker entry: cmd_logout goes on to disconnect the client.
ShutdownEnds(u) ==
    /\ logout[u].pc \in {"idle", "waitfor"}
    /\ logout'[u].pc = "disconnect"
    /\ queue_processors[u] # 0

\* C15.  When the shutdown part of cmd_logout finishes for a user who had a
\* worker, the queue map, the worker map and the processing-flag map hold
\* no entry for the user: after the worker took the sentinel, after it was
\* cancelled at the timeout, and when it had finished before.
C15_LogoutClearsMaps ==
    [][\A u \in Users :
          ShutdownEnds(u) =>
             /\ message_queues'[u] = 0
             /\ queue_processors'[u] = 0
             /\ processing_locks'[u] = "absent"]_vars

\* C15 witness: the worker of user A was busy at the timeout and was
\* cancelled; the shutdown part is over and the maps hold no entry for A.
C15_Witness ==
    /\ logout["A"].pc = "disconnect"
    /\ Len(tasks["A"]) = 1
    /\ tasks["A"][1].cancel /\ tasks["A"][1].pc = "done"
    /\ message_queues["A"] = 0 /\ queue_processors["A"] = 0
    /\ processing_locks["A"] = "absent"

\* The step ends the transfer of task t of user u, by return or exception.
TransferOver(u, t) ==
    /\ tasks[u][t].pc = "transfer"
    /\ ~tasks[u][t].cancel /\ ~tasks'[u][t].cancel
    /\ tasks'[u][t] # tasks[u][t]

\* C19 (as claimed).  Pacing: after every job, returned or raised, the
\* worker waits the inter-job delay before it takes the next job: the step
\* that ends a transfer leaves the worker in asyncio.sleep(1).
C19_Pacing ==
    [][\A u \in Users : \A t \in TaskIds(u) :
          TransferOver(u, t) => tasks'[u][t].pc = "sleep"]_vars

(***************************************************************************)
(* Claims about the ban                                                    *)
(***************************************************************************)
\* C16 (as claimed).  Ban tears the pipeline down: once cmd_ban has
\* finished for a user, no queue, worker or processing-flag entry remains
\* for the user, and no further job of the user is handed to the transfer.
C16_BanTearsDown ==
    /\ [](\A u \in Users :
            banpc[u] = "done" =>
               /\ message_queues[u] = 0
               /\ queue_processors[u] = 0
               /\ processing_locks[u] = "absent")
    /\ [][\A u \in Users : banpc[u] = "done" => started'[u] = started[u]]_vars

\* C18 (as claimed).  A banned user cannot use any bot feature: no private
\* message and no button callback that arrives while its sender is banned
\* reaches a command handler.
C18_BannedBlocked == served = {}

(***************************************************************************)
(* Shutdown on /logout: draining and the bounded wait                      *)
(***************************************************************************)
\* Job j of user u has been processed: it was handed to the transfer and no
\* worker of the user still holds it.
Processed(u, j) ==
    /\ j \in Range(started[u])
    /\ \A t \in TaskIds(u) : tasks[u][t].job # j

C22_BoundedShutdown ==
    \A u \in Users :
        (logout[u].pc = "waitfor" /\ logout[u].fired)
        => \/ TaskDone(u, logout[u].t)
           \/ tasks[u][logout[u].t].cancel

(***************************************************************************)
(* Jobs are taken once                                                     *)
(***************************************************************************)
\* How often x occurs in sequence s.
Count(s, x) == Cardinality({i \in 1..Len(s) : s[i] = x})

\* In how many places job j of user u is: queued in one of the user's
\* queues, or held by one of the user's workers.
Places(u, j) ==
    LET inQ(q) == Count(queues[u][q].items, j)
        total[n \in 0..Len(queues[u])] ==
            IF n = 0 THEN 0 ELSE total[n - 1] + inQ(n)
    IN total[Len(queues[u])] + Cardinality({t \in TaskIds(u) : tasks[u][t].job = j})

C24_Progress ==
    \A u \in Users : \A j \in 1..MaxEvents :
        (j \in Range(enq[u])) ~> Processed(u, j)

\* A job that had to wait in the queue behind another job of the same user
\* has been processed.
C24_Witness ==
    \E u \in Users :
        /\ Len(started[u]) >= 2
        /\ PosIn(enq[u], started[u][2]) = 2
        /\ Processed(u, started[u][2])

(***************************************************************************)
(* Worker respawn                                                          *)
(***************************************************************************)
\* Nothing is in progress for user u: no callback is scheduled, no handler
\* and no cmd_logout of the user is suspended and the user has no live
\* worker.  Only a further inbound event or command changes the state.
Quiescent(u) ==
    /\ ready = <<>>
    /\ \A h \in handlers : h.user # u
    /\ logout[u].pc = "idle"
    /\ LiveWorkers(u) = {}

\* Jobs that sit in a queue of user u.
Queued(u) ==
    {j \in 1..evCount[u] :
        \E q \in 1..Len(queues[u]) : Count(queues[u][q].items, j) > 0}

\* C25.  Worker respawn: when a worker of a user has ended otherwise than
\* on the poison pill, the jobs left in the queue do not stay there with
\* nothing in progress for the user: a new worker takes them without a
\* further inbound event.
C25_Respawn ==
    \A u \in Users :
        (\E t \in TaskIds(u) : tasks[u][t].pc = "done")
        => ~(Quiescent(u) /\ Queued(u) # {})

(***************************************************************************)
(* Events that produce no job                                              *)
(***************************************************************************)
\* C26.  No destination, no job: when the handler of an event of a matched
\* source channel finishes for a user who has no destination, it has
\* created no queue, no worker and no job, and has changed neither the
\* processing flags, the counter nor the cooldown map.
C26_NoDestinationNoJob ==
    [][\A h \in handlers :
          (h \notin handlers' /\ ~destination[h.user])
          => UNCHANGED <<message_queues, queue_processors, processing_locks, queues,
                         tasks, ready, enq, counter, ignored_channels>>]_vars

\* Two events of a user without destination have been handled and dropped,
\* while the other user has a queue and a worker.
C26_Witness ==
    \E u \in Users : \E v \in Users \ {u} :
        /\ ~destination[u]
        /\ evCount[u] = 2
        /\ \A h \in handlers : h.user # u
        /\ message_queues[u] = 0 /\ tasks[u] = <<>> /\ enq[u] = <<>>
        /\ message_queues[v] # 0

\* C27.  Frame of an unmatched event: when the handler of an event of a
\* channel outside the user's source list finishes, no queue, worker, job,
\* processing flag or client entry has changed and the counter is the same;
\* no cooldown entry other than that user's entry for that channel has
\* changed; and when the channel was warned about less than 300 seconds
\* before, the cooldown map is unchanged altogether (the timestamp is not
\* refreshed) and no warning is given.
C27_UnmatchedFrame ==
    [][\A h \in cdHandlers :
          h \notin cdHandlers'
          => /\ UNCHANGED <<message_queues, queue_processors, processing_locks,
                            user_clients, queues, tasks, ready, enq, started, counter>>
             /\ \A u \in Users : \A c \in Channels :
                   (u # h.user \/ c # h.channel)
                   => ignored_channels'[u][c] = ignored_channels[u][c]
             /\ Silenced(h.user, h.channel)
                   => UNCHANGED <<ignored_channels, warned>>]_vars

\* Three events of channel X for user A have been handled, the last of them
\* 298 seconds after the first: one warning, and the entry still holds the
\* time of the first event.
C27_Witness ==
    /\ cdCount = 3
    /\ cdHandlers = {}
    /\ now = 298
    /\ warned["A"]["X"] = <<0>>
    /\ ignored_channels["A"]["X"] = 0
    /\ ignored_channels["A"]["Y"] = -1
    /\ ignored_channels["B"] = [c \in Channels |-> -1]

(***************************************************************************)
(* Effort and last resort of the copy                                      *)
(***************************************************************************)
\* C28.  Bounded effort: within one copy job the download of the media file
\* is attempted at most 3 times and the upload at most 3 times; no download
\* attempt follows a successful download, no upload attempt follows a
\* successful upload, and an upload is attempted only after a download has
\* succeeded.
C28_BoundedEffort ==
    /\ [](dlTries <= max_download_retries /\ upTries <= max_upload_retries)
    /\ [](upTries > 0 => downloaded_path)
    /\ [][downloaded_path => dlTries' = dlTries]_vars
    /\ [][upload_success => upTries' = upTries]_vars
    /\ [][upTries' > upTries => downloaded_path]_vars

\* The third download attempt succeeded and all three uploads failed: the
\* copy has used every attempt it has.
C28_Witness ==
    /\ dlTries = max_download_retries
    /\ upTries = max_upload_retries
    /\ downloaded_path
    /\ ~upload_success
    /\ outcome = "returned"

\* The sends of the log after entry i.
After(i) == SubSeq(sendLog, i + 1, Len(sendLog))

\* C29.  Last resort: when an error has escaped the download/upload stage,
\* the next send is the one delivery attempt by media reference; nothing is
\* sent after it when it is delivered; when it fails, the text alone is
\* sent once if there is a text and nothing is sent if there is none; and no
\* other send follows.
C29_LastResort ==
    /\ [](\A i \in 1..Len(sendLog) :
            sendLog[i][1] = "mediaref"
            => /\ sendLog[i][2] => After(i) = <<>>
               /\ ~msg.text => After(i) = <<>>
               /\ Len(After(i)) <= 1
               /\ After(i) # <<>> => After(i)[1][1] = "text"
               /\ (outcome # "none" /\ ~sendLog[i][2] /\ msg.text) => Len(After(i)) = 1)
    /\ [][cpc = "mediaref" =>
            \E ok \in BOOLEAN : sendLog' = Append(sendLog, <<"mediaref", ok>>)]_vars

\* An error escaped after a successful download, before any upload: the
\* media-reference send failed and the text was then sent alone.
C29_Witness ==
    /\ downloaded_path
    /\ upTries = 0
    /\ outcome = "returned"
    /\ Len(sendLog) >= 2
    /\ sendLog[Len(sendLog) - 1] = <<"mediaref", FALSE>>
    /\ sendLog[Len(sendLog)] = <<"text", TRUE>>

(***************************************************************************)
(* The processing flag                                                     *)
(***************************************************************************)
\* C30.  Processing-flag invariant: for every user with a queue, the flag
\* is True while a transfer of the user is running, and False while the
\* user's worker is suspended in queue.get() on an empty queue.
C30_ProcessingFlag ==
    \A u \in Users :
        message_queues[u] # 0 =>
            /\ InFlight(u) # {} => processing_locks[u] = "True"
            /\ ( /\ queue_processors[u] # 0
                 /\ tasks[u][queue_processors[u]].pc = "get"
                 /\ queues[u][tasks[u][queue_processors[u]].q].items = <<>> )
               => processing_locks[u] = "False"

(***************************************************************************)
(* The stopped worker                                                      *)
(***************************************************************************)
\* C31.  STOPPED is terminal: the poison pill is never handed to the
\* transfer; a worker that has taken it holds no job and no queue, and no
\* later step changes it, so it starts no further transfer and takes no
\* job put on its queue after the pill.
C31_StoppedTerminal ==
    /\ [](\A u \in Users :
            /\ Stop \notin Range(started[u])
            /\ \A t \in TaskIds(u) :
                  tasks[u][t].pc = "stopped" => tasks[u][t].job = 0 /\ tasks[u][t].q = 0)
    /\ [][\A u \in Users : \A t \in TaskIds(u) :
            tasks[u][t].pc = "stopped" => tasks'[u][t] = tasks[u][t]]_vars

\* The user's only worker has stopped on the pill and the logout is over; a
\* job that a handler put on the queue behind the pill is still there and
\* was never handed to the transfer.
C31_Witness ==
    \E u \in Users :
        /\ Len(tasks[u]) = 1 /\ tasks[u][1].pc = "stopped"
        /\ logout[u].pc = "idle" /\ nLogouts = 1
        /\ Len(queues[u]) = 1
        /\ queues[u][1].items # <<>>
        /\ Head(queues[u][1].items) # Stop
        /\ Head(queues[u][1].items) \notin Range(started[u])

(***************************************************************************)
(* The job is a snapshot                                                   *)
(***************************************************************************)
\* C32.  Job snapshot: the dict of a job is written once, when the job is
\* enqueued, with the mode and the destination of that moment, and is not
\* changed afterwards; and every job handed to the transfer is transferred
\* with the mode and to the destination of its dict, whatever the user's
\* mode and destination are by then.
C32_JobSnapshot ==
    /\ [](\A u \in Users : \A j \in Range(started[u]) :
             delivered_as[u][j] # NoData /\ delivered_as[u][j] = message_data[u][j])
    /\ [][\A u \in Users : \A j \in 1..MaxEvents :
            /\ message_data[u][j] # NoData => message_data'[u][j] = message_data[u][j]
            /\ message_data'[u][j] # message_data[u][j] =>
                  message_data'[u][j] = [mode |-> forward_mode[u], dest |-> dest_channel[u]]]_vars

\* A job enqueued in copy mode for destination 1 has been transferred that
\* way after the user switched to forward mode and to destination 2 while
\* it waited in the queue behind another job.
C32_Witness ==
    \E u \in Users :
        /\ Len(started[u]) >= 2
        /\ delivered_as[u][started[u][2]] = [mode |-> "copy", dest |-> 1]
        /\ forward_mode[u] = "forward"
        /\ dest_channel[u] = 2

(***************************************************************************)
(* C33.  Timeout formulas.  With S the declared size in megabytes (10 for  *)
(* a photo, 0 for media that declare no size), the download timeout of an  *)
(* attempt is 240 s up to S = 90 and S / 1.5 + 180 s above, that is        *)
(* max(240, S / 1.5 + 180); with S' the size of the downloaded file, the   *)
(* upload timeout is 360 s up to S' = 120 and S' + 240 s above, that is    *)
(* max(360, S' / 1.0 + 240).  Neither falls below its floor, and a media   *)
(* (a file) that is not larger never gets a longer timeout.                *)
(***************************************************************************)
C33_Timeouts ==
    LET S == CASE media.kind = "document" -> media.size
               [] media.kind = "photo"    -> 10 * MiB
               [] OTHER                   -> 0
    IN  /\ tpc \in {"downloading", "upload", "uploading"} =>
              /\ download_timeout =
                    IF S <= 90 * MiB THEN 240 * DlRate ELSE S + 180 * DlRate
              /\ download_timeout >= 240 * DlRate
              /\ \A m \in Medias :
                    FileSize(m) <= S => DownloadTimeout(FileSize(m)) <= download_timeout
        /\ tpc = "uploading" =>
              /\ upload_timeout =
                    IF file_size_actual <= 120 * MiB THEN 360 * UpRate
                    ELSE file_size_actual + 240 * UpRate
              /\ upload_timeout >= 360 * UpRate
              /\ \A s \in Sizes :
                    s <= file_size_actual => UploadTimeout(s) <= upload_timeout

\* A document declaring 150 MB gets 280 s for the download, and the 200 MB
\* file that arrived gets 440 s for the upload.
C33_Witness ==
    /\ tpc = "uploading"
    /\ media = [kind |-> "document", size |-> 150 * MiB]
    /\ download_timeout = 280 * DlRate
    /\ file_size_actual = 200 * MiB
    /\ upload_timeout = 440 * UpRate

(***************************************************************************)
(* C34.  The owner can never be banned: the owner's account is in the ban  *)
(* list in no reachable state, and every /ban whose argument parses to the *)
(* owner's id is answered "Cannot ban the bot owner" and leaves the ban    *)
(* list as it was.                                                         *)
(***************************************************************************)
C34_OwnerNeverBanned ==
    /\ [](~banned[Owner])
    /\ [][(/\ ban_cmd'.n # ban_cmd.n
           /\ ban_cmd'.cmd = "ban"
           /\ ParseInt(ban_cmd'.args).ok
           /\ ParseInt(ban_cmd'.args).val = IdOf(Owner))
          => (ban_cmd'.reply = "owner" /\ banned' = banned)]_vars

\* With user A banned, the owner sends /ban +7, the owner's own id written
\* with a sign, and is refused.
C34_Witness ==
    /\ banned["A"]
    /\ ban_cmd.cmd = "ban"
    /\ ban_cmd.args = <<"+", "7">>
    /\ ban_cmd.reply = "owner"

(***************************************************************************)
(* C35 (as claimed).  Single client per user: however concurrent calls of  *)
(* get_user_client for one user interleave, at most one connected client   *)
(* carrying the inbound-message handler exists for the user, and one       *)
(* inbound channel message produces at most one job.  Refuted: two calls   *)
(* that both miss the cache each create and register a client.             *)
(***************************************************************************)
C35_SingleClient ==
    \A u \in Users : Cardinality(live_clients[u]) <= 1 /\ last_jobs[u] <= 1

\* User u is between the completion of a logout and the next login: no
\* logout is running and no session is stored.
LoggedOut(u) == logout[u].pc = "idle" /\ ~session[u]

(***************************************************************************)
(* C36 (as claimed).  Stays torn down: between the completion of a logout  *)
(* and the user's next login the user has no queue, no worker and no       *)
(* processing flag, and no transfer of the user is in flight, even when a  *)
(* handler suspended before the logout resumes afterwards.  Refuted: the   *)
(* resumed handler creates all three entries again.                        *)
(***************************************************************************)
C36_StaysTornDown ==
    \A u \in Users :
        LoggedOut(u) =>
            /\ message_queues[u] = 0
            /\ queue_processors[u] = 0
            /\ processing_locks[u] = "absent"
            /\ InFlight(u) = {}

(***************************************************************************)
(* C37.  Missing client: when get_user_client returns to a worker that     *)
(* holds a job, either the job goes to the transfer, or it is dropped: it  *)
(* is not handed to any transfer, the counter is not incremented, the      *)
(* worker goes on to its next `queue.get()`, and the processing flag is    *)
(* false unless the worker has taken the next job at once.  With no        *)
(* cached client and no stored session the job is always dropped.          *)
(***************************************************************************)
C37_MissingClient ==
    [][\A u \in Users : \A t \in TaskIds(u) :
          LET j == tasks[u][t].job
              w == tasks'[u][t]
              Obtained == w.pc = "transfer" /\ w.job = j
              Dropped ==
                  /\ j \notin Range(started'[u])
                  /\ counter' = counter
                  /\ w.pc \in {"get", "client", "transfer", "stopped"}
                  /\ w.job # j
                  /\ processing_locks'[u] = IF w.job = 0 THEN "False" ELSE "True"
          IN  (/\ tasks[u][t].pc = "client"
               /\ w.pc # "done"
               /\ (w.pc # "client" \/ w.job # j))
              => /\ Obtained \/ Dropped
                 /\ (~session[u] /\ ~user_clients[u]) => Dropped]_vars

\* After a logout without a worker to stop, the worker started by a late
\* handler has dropped its only job: the job is in no queue, with no task
\* and was never handed to a transfer, the worker waits for the next one.
C37_Witness ==
    \E u \in Users : \E j \in Range(enq[u]) :
        /\ LoggedOut(u)
        /\ Places(u, j) = 0
        /\ j \notin Range(started[u])
        /\ Len(tasks[u]) = 1
        /\ tasks[u][1].pc = "get"
        /\ ~tasks[u][1].cancel
        /\ processing_locks[u] = "False"
        /\ counter = 0

(***************************************************************************)
(* C38 (as claimed).  Login-phase exclusivity: for every user at most one  *)
(* of awaiting_login, awaiting_code and awaiting_password is True, under   *)
(* any sequence of /login commands, login buttons, phone numbers, codes,   *)
(* passwords and logouts.  Refuted: cmd_login sets awaiting_login and      *)
(* leaves the two other flags as they are.                                 *)
(***************************************************************************)
C38_LoginPhaseExclusive ==
    \A u \in Users : Cardinality(awaiting[u] \cap LoginFlags) <= 1

(***************************************************************************)
(* C39.  Set-up-phase exclusivity: for no user are awaiting_source_forward *)
(* and awaiting_destination_forward both True; a step that raises one of   *)
(* the two flags leaves the other one False, and a completed channel add   *)
(* or destination set leaves the flag it consumed False.                   *)
(***************************************************************************)
C39_SetupPhaseExclusive ==
    /\ [](\A u \in Users : ~(SetupFlags \subseteq awaiting[u]))
    /\ [][\A u \in Users :
             /\ ("source" \in awaiting'[u] /\ awaiting'[u] # awaiting[u])
                   => "destination" \notin awaiting'[u]
             /\ ("destination" \in awaiting'[u] /\ awaiting'[u] # awaiting[u])
                   => "source" \notin awaiting'[u]]_vars
    /\ [][\A e \in botTasks \ botTasks' :
             /\ e.kind = "add_source" => "source" \notin awaiting'[e.user]
             /\ e.kind = "set_destination" => "destination" \notin awaiting'[e.user]]_vars

\* A destination set has completed for a user (no destination was set to
\* begin with): its flag is False again, and the user has since asked to add
\* a source.
C39_Witness ==
    \E u \in Users :
        /\ destination[u]
        /\ awaiting[u] \cap SetupFlags = {"source"}
        /\ botTasks = {}
====
